---- MODULE Spec2Model ----
(***************************************************************************)
(* Model of pelias-stitch (src/utils.ts): the response merger with its     *)
(* duplicate filter and focus-point sort, and the quality gate.            *)
(*                                                                         *)
(* Conventions.                                                            *)
(*  - A JavaScript string is a sequence of one-character strings, so that  *)
(*    toLowerCase, includes and the /^400-/ match are computed.            *)
(*  - An optional value (undefined / absent property) is None == <<>>, a   *)
(*    present value v is Some(v) == <<v>>.                                 *)
(*  - A coordinate is an integer number of micro-degrees (1e-6 degree).    *)
(***************************************************************************)
EXTENDS Integers, Sequences, FiniteSets

VARIABLES
    customResponse,   \* the customResponse object handed to mergeResponses
    primaryResponse,  \* the primaryResponse object handed to mergeResponses
    focusPoint,       \* the focusPoint argument (None when not given)
    customInput,      \* history: customResponse as constructed, before any call
    primaryInput,     \* history: primaryResponse as constructed, before any call
    outputs,          \* the results of the mergeResponses calls made so far
    gateCollection,   \* featureCollection argument of checkIfResultsAreSatisfactory
    gateQuery,        \* queryString argument of checkIfResultsAreSatisfactory
    gateResult,       \* None before the call, Some(returned boolean) after it
    foldResponses,    \* the `responses` array handed to responses.reduce
    foldMerged,       \* None before the reduce, Some(what it returned) after it
    foldFocus,        \* the focus point of the request whose responses are folded
    receivedText,     \* history: queryStringParameters.text as the event came in
    text,             \* event.queryStringParameters.text (None when absent)
    apiMethod,        \* the apiMethod argument of makeGeocoderRequests
    backupGeocoders,  \* per geocoder: a backup geocoder is configured
    initialCalls,     \* per geocoder: the promise of its cachedGeocoderRequest
    backupCalls,      \* per geocoder: the promise of the fallback callback
    phase,            \* position of makeGeocoderRequests
    backendLog,       \* the geocoder methods invoked so far, in order
    gateChecks,       \* history: the responses the quality gate was called on
    backupAnswers,    \* history: what the backup geocoders answered, in order
    responses,        \* the `responses` array after the fallback stage
    merged,           \* None, or Some(the collection the reduce returned)
    redisStore,       \* the cache: per key, None or Some(the string stored)
    redisClient,      \* TRUE when a redis client is handed to the calls
    cacheArgs,        \* the text and focusPoint of args, shared by the calls
    secondaryCall,    \* the call of the secondary geocoder: its position
    storedBy,         \* history: the call that produced what the cache holds
                      \* when the request arrives
    cacheCalls,       \* per call of cachedGeocoderRequest: its position
    cacheLog,         \* the redis and geocoder operations issued so far
    unhandled,        \* number of promise rejections that nothing handles
    pointA,           \* argument a of arePointsRoughlyEqual
    pointB,           \* argument b of arePointsRoughlyEqual
    pointsEqual,      \* None before the call, Some(returned boolean) after it
    rawQuery,         \* the queryString argument of makeQueryPeliasCompatible
    cleaned,          \* None before the call, Some(returned string) after it
    queryStringParams, \* argument of convertQSPToGeocoderArgs
    geocoderArgs      \* None before the call, Some(returned object) after it

mergeVars == <<customResponse, primaryResponse, focusPoint, customInput,
               primaryInput, outputs>>
gateVars == <<gateCollection, gateQuery, gateResult>>
foldVars == <<foldResponses, foldMerged, foldFocus>>
requestVars == <<receivedText, text, apiMethod, backupGeocoders, initialCalls,
                 backupCalls, phase, backendLog, gateChecks, backupAnswers,
                 responses, merged>>

cacheVars == <<redisStore, redisClient, cacheArgs, cacheCalls, cacheLog,
               unhandled, secondaryCall, storedBy>>

pointVars == <<pointA, pointB, pointsEqual>>
sanitizerVars == <<rawQuery, cleaned>>
qspVars == <<queryStringParams, geocoderArgs>>

vars == <<mergeVars, gateVars, foldVars, requestVars, cacheVars, pointVars,
          sanitizerVars, qspVars>>

\* What each operation leaves alone
notMergeVars ==
    <<gateVars, foldVars, requestVars, cacheVars,
      pointVars, sanitizerVars, qspVars>>
notGateVars ==
    <<mergeVars, foldVars, requestVars, cacheVars,
      pointVars, sanitizerVars, qspVars>>
notFoldVars ==
    <<mergeVars, gateVars, requestVars, cacheVars,
      pointVars, sanitizerVars, qspVars>>
notRequestVars ==
    <<mergeVars, gateVars, foldVars, cacheVars,
      pointVars, sanitizerVars, qspVars>>
notCacheVars ==
    <<mergeVars, gateVars, foldVars, requestVars,
      pointVars, sanitizerVars, qspVars>>
notPointVars ==
    <<mergeVars, gateVars, foldVars, requestVars,
      cacheVars, sanitizerVars, qspVars>>
notSanitizerVars ==
    <<mergeVars, gateVars, foldVars, requestVars,
      cacheVars, pointVars, qspVars>>
notQspVars ==
    <<mergeVars, gateVars, foldVars, requestVars,
      cacheVars, pointVars, sanitizerVars>>

-----------------------------------------------------------------------------
(* Bounds of the model *)

MaxCustom == 3    \* longest customResponse.features list
MaxPrimary == 2   \* longest primaryResponse.features list
MaxGate == 2      \* longest feature list handed to the quality gate
MaxFold == 2      \* longest feature list of a response that is folded
MaxGeocoders == 2 \* longest GEOCODERS list
MaxText == 3      \* longest query string handed to the sanitizer

-----------------------------------------------------------------------------
(* Optional values and JavaScript strings *)

None == <<>>
Some(v) == <<v>>
Val(o) == o[1]

UpperChars == <<"A", "B", "C", "D", "E", "F", "G", "H", "I", "J", "K", "L", "M",
                "N", "O", "P", "Q", "R", "S", "T", "U", "V", "W", "X", "Y", "Z">>
LowerChars == <<"a", "b", "c", "d", "e", "f", "g", "h", "i", "j", "k", "l", "m",
                "n", "o", "p", "q", "r", "s", "t", "u", "v", "w", "x", "y", "z">>

\* String.prototype.toLowerCase, one character
LowerChar(c) ==
    IF \E i \in 1..Len(UpperChars) : UpperChars[i] = c
    THEN LowerChars[CHOOSE i \in 1..Len(UpperChars) : UpperChars[i] = c]
    ELSE c

\* String.prototype.toLowerCase
toLowerCase(s) == [i \in 1..Len(s) |-> LowerChar(s[i])]

\* String.prototype.includes: needle occurs in hay as a contiguous substring
includes(hay, needle) ==
    \E i \in 0..(Len(hay) - Len(needle)) :
        SubSeq(hay, i + 1, i + Len(needle)) = needle

\* `x || ''` for an optional string x
OrEmpty(o) == IF o = None THEN <<>> ELSE Val(o)

\* Optional chaining feature?.properties?.<field>
Prop(feature, field) ==
    IF feature.properties = None THEN None ELSE Val(feature.properties)[field]

-----------------------------------------------------------------------------
(* Constants of the program *)

PREFERRED_LAYERS == <<"venue", "address", "street", "intersection">>

DistanceThreshold == 7500

PrecisionDigits == 4

-----------------------------------------------------------------------------
(* Text sanitizer: src/utils.ts makeQueryPeliasCompatible *)

\* String.prototype.replace with a pattern that lacks the g flag: the first
\* occurrence of ch alone gives way to the string by
RECURSIVE replaceFirst(_, _, _)
replaceFirst(s, ch, by) ==
    IF s = <<>> THEN <<>>
    ELSE IF Head(s) = ch THEN by \o Tail(s)
    ELSE <<Head(s)>> \o replaceFirst(Tail(s), ch, by)

\* String.prototype.replace with a one-character global pattern: every
\* occurrence of ch gives way to the string by
RECURSIVE replaceAll(_, _, _)
replaceAll(s, ch, by) ==
    IF s = <<>> THEN <<>>
    ELSE (IF Head(s) = ch THEN by ELSE <<Head(s)>>) \o replaceAll(Tail(s), ch, by)

\* queryString.replace(/@/g, ' ').replace(/&/g, ' ')
makeQueryPeliasCompatible(queryString) ==
    replaceAll(replaceAll(queryString, "@", <<" ">>), "&", <<" ">>)

-----------------------------------------------------------------------------
(* Geo equality comparator: src/utils.ts arePointsRoughlyEqual *)

RECURSIVE Pow10(_)
Pow10(n) == IF n = 0 THEN 1 ELSE 10 * Pow10(n - 1)

Abs(x) == IF x < 0 THEN -x ELSE x

\* The digits beyond the fourth cut off, not rounded
toFixedTruncated(point) ==
    LET unit == Pow10(6 - PrecisionDigits)
        n == Abs(point) \div unit
    IN  IF point < 0 THEN -n ELSE n

\* parseFloat(point.toFixed(4)) of a coordinate given in micro-degrees: the
\* number of 1e-4 degree units nearest to it.  toFixed formats the magnitude
\* and prefixes the sign; of two equally near candidates it takes the larger.
toFixedParsed(point) ==
    LET unit == Pow10(6 - PrecisionDigits)
        n == (Abs(point) + unit \div 2) \div unit
    IN  IF point < 0 THEN -n ELSE n

\* The comparison with the rounding left out
arePointsExactlyEqual(a, b) ==
    \A index \in 1..Len(a) : index <= Len(b) /\ a[index] = b[index]

\* The comparison with b left unrounded
arePointsRoughlyEqualOneSided(a, b) ==
    \A index \in 1..Len(a) :
        /\ index <= Len(b)
        /\ toFixedParsed(a[index]) * Pow10(6 - PrecisionDigits) = b[index]

\* aRounded.every((element, index) => element === bRounded[index]); an index
\* beyond b reads undefined, which is === to no number.
arePointsRoughlyEqual(a, b) ==
    \A index \in 1..Len(a) :
        /\ index <= Len(b)
        /\ toFixedParsed(a[index]) = toFixedParsed(b[index])

-----------------------------------------------------------------------------
(* Query normalizer: src/utils.ts convertQSPToGeocoderArgs *)

\* Numbers are held as integer counts of 10^-FractionDigits
FractionDigits == 2

\* JavaScript values the normalizer handles: null, strings and numbers
JsNull == [type |-> "null"]
JsString(chars) == [type |-> "string", value |-> chars]
JsNumber(n) == [type |-> "number", nan |-> FALSE, value |-> n]
NaN == [type |-> "number", nan |-> TRUE, value |-> 0]

\* ToBoolean: null, '', 0, -0 and NaN are falsy
truthy(v) ==
    CASE v.type = "null" -> FALSE
      [] v.type = "string" -> v.value # <<>>
      [] v.type = "number" -> ~v.nan /\ v.value # 0

DecimalDigits == <<"0", "1", "2", "3", "4", "5", "6", "7", "8", "9">>
IsDigit(c) == \E d \in DOMAIN DecimalDigits : DecimalDigits[d] = c
DigitValue(c) == (CHOOSE d \in DOMAIN DecimalDigits : DecimalDigits[d] = c) - 1

\* The longest prefix of s made of decimal digits
RECURSIVE digitsPrefix(_)
digitsPrefix(s) ==
    IF s # <<>> /\ IsDigit(Head(s)) THEN <<Head(s)>> \o digitsPrefix(Tail(s))
    ELSE <<>>

\* The value of a sequence of decimal digits
RECURSIVE digitsValue(_)
digitsValue(digits) ==
    IF digits = <<>> THEN 0
    ELSE 10 * digitsValue(SubSeq(digits, 1, Len(digits) - 1))
         + DigitValue(digits[Len(digits)])

\* Leading white space skipped
RECURSIVE trimStart(_)
trimStart(s) == IF s # <<>> /\ Head(s) = " " THEN trimStart(Tail(s)) ELSE s

\* parseFloat(string): white space, an optional sign, digits, an optional
\* point and digits; what follows is ignored, and NaN is the result when no
\* digit was read.  Exponents, Infinity and fraction digits beyond
\* FractionDigits are left out; -0 is held as 0, which is as falsy.
parseFloat(string) ==
    LET trimmed == trimStart(string)
        signed == trimmed # <<>> /\ Head(trimmed) \in { "-", "+" }
        negative == trimmed # <<>> /\ Head(trimmed) = "-"
        unsigned == IF signed THEN Tail(trimmed) ELSE trimmed
        integerPart == digitsPrefix(unsigned)
        rest == SubSeq(unsigned, Len(integerPart) + 1, Len(unsigned))
        fractionPart ==
            IF rest # <<>> /\ Head(rest) = "." THEN digitsPrefix(Tail(rest))
            ELSE <<>>
        fraction ==
            [i \in 1..FractionDigits |->
                IF i <= Len(fractionPart) THEN fractionPart[i] ELSE "0"]
        magnitude ==
            digitsValue(integerPart) * Pow10(FractionDigits)
            + digitsValue(fraction)
    IN  IF integerPart = <<>> /\ fractionPart = <<>> THEN NaN
        ELSE JsNumber(IF negative THEN -magnitude ELSE magnitude)

\* new URLSearchParams(queryStringParams).get(key): null for a missing key
paramsGet(params, key) ==
    IF key \in DOMAIN params THEN params[key] ELSE None

\* [...].map((p) => p && parseFloat(p)): null stays null, '' stays ''
parsedParam(params, key) ==
    LET p == paramsGet(params, key)
    IN  IF p = None THEN JsNull
        ELSE IF Val(p) = <<>> THEN JsString(<<>>)
        ELSE parseFloat(Val(p))

\* Array.prototype.join: the elements with the separator between them, a
\* string held as the sequence of its parts
RECURSIVE join(_, _)
join(list, separator) ==
    IF list = <<>> THEN <<>>
    ELSE IF Len(list) = 1 THEN list
    ELSE <<Head(list), separator>> \o join(Tail(list), separator)

DefaultSize == 4

\* if (minLat && minLon && maxLat && maxLon)
rectGiven(minLat, minLon, maxLat, maxLon) ==
    truthy(minLat) /\ truthy(minLon) /\ truthy(maxLat) /\ truthy(maxLon)

\* A lat/lon group, set when its lat parameter is a non-empty string; lon is
\* passed on as it is, null included
latLonGroup(params, latKey, lonKey) ==
    LET lat == paramsGet(params, latKey)
    IN  IF lat # None /\ Val(lat) # <<>>
        THEN Some([lat |-> Val(lat),
                   lon |-> paramsGet(params, lonKey)])
        ELSE None

convertQSPToGeocoderArgs(params) ==
    LET minLat == parsedParam(params, "boundary.rect.min_lat")
        minLon == parsedParam(params, "boundary.rect.min_lon")
        maxLat == parsedParam(params, "boundary.rect.max_lat")
        maxLon == parsedParam(params, "boundary.rect.max_lon")
        size == parsedParam(params, "size")
        textParam == paramsGet(params, "text")
        layers == paramsGet(params, "layers")
    IN  [boundary |->
            IF rectGiven(minLat, minLon, maxLat, maxLon)
            THEN Some([rect |-> [maxLat |-> maxLat, maxLon |-> maxLon,
                                 minLat |-> minLat, minLon |-> minLon]])
            ELSE None,
         focusPoint |->
            latLonGroup(params, "focus.point.lat", "focus.point.lon"),
         point |-> latLonGroup(params, "point.lat", "point.lon"),
         text |-> IF textParam # None /\ Val(textParam) # <<>> THEN textParam
                  ELSE None,
         size |->
            IF truthy(size) THEN size
            ELSE JsNumber(DefaultSize * Pow10(FractionDigits)),
         layers |->
            IF layers # None /\ Val(layers) # <<>> THEN Val(layers)
            ELSE join(PREFERRED_LAYERS, ",")]

-----------------------------------------------------------------------------
(* Duplicate filter: src/utils.ts filterOutDuplicateStops *)

\* feature?.properties?.distance > 7500 (undefined > 7500 is false)
isTooFarAway(feature) ==
    LET distance == Prop(feature, "distance")
    IN  distance # None /\ Val(distance) > DistanceThreshold

\* The comparison with the two toLowerCase calls left out
nameIncludesCaseSensitive(feature, otherFeature) ==
    includes(OrEmpty(Prop(feature, "name")), OrEmpty(Prop(otherFeature, "name")))

\* (feature?.properties?.name || '').toLowerCase()
\*     .includes((otherFeature?.properties?.name || '').toLowerCase())
nameIncludes(feature, otherFeature) ==
    includes(toLowerCase(OrEmpty(Prop(feature, "name"))),
             toLowerCase(OrEmpty(Prop(otherFeature, "name"))))

\* First `if` of filterOutDuplicateStops: customFeatures.find(...) is truthy.
\* Both the name test and the distance test sit in the find callback, so
\* either counts only when there is a custom feature to run the callback on.
nameOrDistanceGate(feature, customFeatures) ==
    \E i \in 1..Len(customFeatures) :
        nameIncludes(feature, customFeatures[i]) \/ isTooFarAway(feature)

\* c.id.match(/400-/), the anchor forgotten
categoryMatchesUnanchored(c) == includes(c.id, <<"4", "0", "0", "-">>)

\* !!c.id.match(/^400-/)
categoryMatches(c) ==
    Len(c.id) >= 4 /\ SubSeq(c.id, 1, 4) = <<"4", "0", "0", "-">>

\* JavaScript truthiness of an optional string
TruthyString(o) == o # None /\ Val(o) # <<>>

\* Negation of the second `if` of filterOutDuplicateStops: the feature has
\* properties, an addendum, and an osm.operator or a category id in 400-.
isTransitStop(feature) ==
    /\ feature.properties # None
    /\ Prop(feature, "addendum") # None
    /\ LET addendum == Val(Prop(feature, "addendum"))
       IN  \/ addendum.osm # None /\ TruthyString(Val(addendum.osm).operator)
           \/ /\ addendum.categories # None
              /\ \E i \in 1..Len(Val(addendum.categories)) :
                     categoryMatches(Val(addendum.categories)[i])

\* The callback of the last customFeatures.find: null unless both are Points
isSamePlace(feature, otherFeature) ==
    /\ feature.geometry.type = "Point"
    /\ otherFeature.geometry.type = "Point"
    /\ arePointsRoughlyEqual(feature.geometry.coordinates,
                             otherFeature.geometry.coordinates)

\* TRUE when the feature is kept
filterOutDuplicateStops(feature, customFeatures) ==
    IF nameOrDistanceGate(feature, customFeatures) THEN FALSE
    ELSE IF ~isTransitStop(feature) THEN TRUE
    ELSE ~ \E i \in 1..Len(customFeatures) :
               isSamePlace(feature, customFeatures[i])

-----------------------------------------------------------------------------
(* Focus-point sort: the comparator of src/utils.ts mergeResponses and      *)
(* Array.prototype.sort as the nodejs20.x runtime (src/serverless.yml)      *)
(* executes it                                                              *)

\* @conveyal/lonlat fromCoordinates: [lon, lat] to {lat, lon}
fromCoordinates(coordinates) == [lat |-> coordinates[2], lon |-> coordinates[1]]

\* Largest r with r * r <= n, by bisection on the decimal digits
RECURSIVE ISqrtDigits(_, _, _)
ISqrtDigits(n, r, step) ==
    IF step = 0 THEN r
    ELSE IF (r + step) * (r + step) <= n THEN ISqrtDigits(n, r + step, step)
    ELSE ISqrtDigits(n, r, step \div 10)

ISqrt(n) == ISqrtDigits(n, 0, 10000)

\* geolib getDistance(from, to): the distance in whole metres (accuracy 1).
\* Over the few kilometres the model's points span the great circle is taken
\* as the plane, one micro-degree being 0.111 m.
getDistance(from, to) ==
    LET dLat == from.lat - to.lat
        dLon == from.lon - to.lon
    IN  (111 * ISqrt(dLat * dLat + dLon * dLon) + 500) \div 1000

\* The comparator answering -1, not 0, for a pair it cannot compare
compareFnMinusOne(a, b, focus) ==
    IF a.geometry.type = "Point" /\ b.geometry.type = "Point"
    THEN getDistance(fromCoordinates(a.geometry.coordinates), focus)
         - getDistance(fromCoordinates(b.geometry.coordinates), focus)
    ELSE -1

\* The comparator handed to sort: the difference of the distances to the focus
\* point when both are Points, 0 otherwise
compareFn(a, b, focus) ==
    IF a.geometry.type = "Point" /\ b.geometry.type = "Point"
    THEN getDistance(fromCoordinates(a.geometry.coordinates), focus)
         - getDistance(fromCoordinates(b.geometry.coordinates), focus)
    ELSE 0

Reverse(s) == [i \in 1..Len(s) |-> s[Len(s) + 1 - i]]

\* V8 CountAndMakeRun from index idx (1-based) on: the length of the initial
\* run, descending (strictly) or not descending
RECURSIVE RunLength(_, _, _, _)
RunLength(arr, idx, isDescending, focus) ==
    IF idx > Len(arr) THEN Len(arr)
    ELSE LET order == compareFn(arr[idx], arr[idx - 1], focus)
         IN  IF (isDescending /\ order >= 0) \/ (~isDescending /\ order < 0)
             THEN idx - 1
             ELSE RunLength(arr, idx + 1, isDescending, focus)

\* V8 BinaryInsertionSort's search: the 0-based slot of pivot in arr[0..right)
RECURSIVE BinarySearch(_, _, _, _, _)
BinarySearch(arr, pivot, left, right, focus) ==
    IF left >= right THEN left
    ELSE LET mid == left + (right - left) \div 2
         IN  IF compareFn(pivot, arr[mid + 1], focus) < 0
             THEN BinarySearch(arr, pivot, left, mid, focus)
             ELSE BinarySearch(arr, pivot, mid + 1, right, focus)

\* V8 BinaryInsertionSort: arr[0..start) is the run, insert arr[start..) 
RECURSIVE BinaryInsertionSort(_, _, _)
BinaryInsertionSort(arr, start, focus) ==
    IF start >= Len(arr) THEN arr
    ELSE LET pivot == arr[start + 1]
             left == BinarySearch(arr, pivot, 0, start, focus)
             moved == SubSeq(arr, 1, left) \o <<pivot>>
                      \o SubSeq(arr, left + 1, start)
                      \o SubSeq(arr, start + 2, Len(arr))
         IN  BinaryInsertionSort(moved, start + 1, focus)

\* Array.prototype.sort(compareFn) on an array shorter than 64 (V8 TimSort
\* with one run: CountAndMakeRun, then BinaryInsertionSort of the rest)
ArraySort(arr, focus) ==
    IF Len(arr) < 2 THEN arr
    ELSE LET isDescending == compareFn(arr[2], arr[1], focus) < 0
             runLength == RunLength(arr, 3, isDescending, focus)
             run == IF isDescending
                    THEN Reverse(SubSeq(arr, 1, runLength))
                         \o SubSeq(arr, runLength + 1, Len(arr))
                    ELSE arr
         IN  BinaryInsertionSort(run, runLength, focus)

-----------------------------------------------------------------------------
(* GeoJSON collections *)

FeatureCollection(features) == [type |-> "FeatureCollection", features |-> features]

\* { features: [], type: 'FeatureCollection' }
EmptyCollection == FeatureCollection(Some(<<>>))

-----------------------------------------------------------------------------
(* Response merger: src/utils.ts mergeResponses *)

\* The primary features handed on unfiltered
FilterPrimaryFeaturesKeepAll(primaryFeatures, customFeatures) ==
    OrEmpty(primaryFeatures)

\* responses?.primaryResponse?.features?.filter((feature) =>
\*     filterOutDuplicateStops(feature, responses.customResponse.features)) || []
\* (customFeatures is read only inside the callback; see mergeThrows)
FilterPrimaryFeatures(primaryFeatures, customFeatures) ==
    IF primaryFeatures = None THEN <<>>
    ELSE LET keep(feature) ==
                 filterOutDuplicateStops(feature, OrEmpty(customFeatures))
         IN  SelectSeq(Val(primaryFeatures), keep)

\* filterOutDuplicateStops calls customFeatures.find: with customFeatures
\* undefined that is a TypeError, raised when the filter callback first runs
mergeThrows(customFeatures, primaryFeatures) ==
    /\ customFeatures = None
    /\ primaryFeatures # None
    /\ Len(Val(primaryFeatures)) > 0

\* The sort run on the Points alone, the other features filtered away
SortCustomPointsOnly(customFeatures, focus) ==
    IF focus # None /\ customFeatures # None
    THEN LET isPoint(feature) == feature.geometry.type = "Point"
         IN  Some(ArraySort(SelectSeq(Val(customFeatures), isPoint), Val(focus)))
    ELSE customFeatures

\* if (focusPoint && responses.customResponse.features)
\*     responses.customResponse.features.sort(...)        (sorts in place)
SortCustomFeatures(customFeatures, focus) ==
    IF focus # None /\ customFeatures # None
    THEN Some(ArraySort(Val(customFeatures), Val(focus)))
    ELSE customFeatures

\* The two spreads in the other order
MergedFeaturesPrimaryFirst(customFeatures, primaryFeatures) ==
    primaryFeatures \o OrEmpty(customFeatures)

\* features: [...(responses.customResponse.features || []),
\*            ...responses.primaryResponse.features]
MergedFeatures(customFeatures, primaryFeatures) ==
    OrEmpty(customFeatures) \o primaryFeatures

\* One call of mergeResponses on the objects custom and primary: what the two
\* objects hold afterwards, and the returned collection
mergeResponses(custom, primary, focus) ==
    IF mergeThrows(custom.features, primary.features)
    THEN [threw |-> TRUE, customResponse |-> custom, primaryResponse |-> primary]
    ELSE LET filtered == FilterPrimaryFeatures(primary.features, custom.features)
             sorted == SortCustomFeatures(custom.features, focus)
         IN  [threw |-> FALSE,
              customResponse |-> [custom EXCEPT !.features = sorted],
              primaryResponse |-> [primary EXCEPT !.features = Some(filtered)],
              mergedResponse |->
                  [primary EXCEPT !.features =
                                      Some(MergedFeatures(sorted, filtered))]]

-----------------------------------------------------------------------------
(* Fold of the responses: src/utils.ts makeGeocoderRequests,                *)
(* responses.reduce(...)                                                    *)

\* The callback with the sides exchanged: the accumulator as customResponse
reduceCallbackAccumulatorAsCustom(prev, cur, idx) ==
    IF idx = 0 THEN [threw |-> FALSE, value |-> Some(cur)]
    ELSE IF prev = None THEN [threw |-> FALSE, value |-> None]
    ELSE LET call == mergeResponses(Val(prev), cur, None)
         IN  IF call.threw THEN [threw |-> TRUE, value |-> None]
             ELSE [threw |-> FALSE, value |-> Some(call.mergedResponse)]

\* (prev, cur, idx) => {
\*   if (idx === 0) return cur
\*   if (prev) return mergeResponses({ customResponse: cur, primaryResponse: prev })
\* }
\* prev is None for null and undefined; no focus point is handed on.
reduceCallback(prev, cur, idx) ==
    IF idx = 0 THEN [threw |-> FALSE, value |-> Some(cur)]
    ELSE IF prev = None THEN [threw |-> FALSE, value |-> None]
    ELSE LET call == mergeResponses(cur, Val(prev), None)
         IN  IF call.threw THEN [threw |-> TRUE, value |-> None]
             ELSE [threw |-> FALSE, value |-> Some(call.mergedResponse)]

\* responses.reduce(callback, null), from the 0-based index idx on with the
\* accumulator prev
RECURSIVE reduce(_, _, _)
reduce(list, prev, idx) ==
    IF idx >= Len(list) THEN [threw |-> FALSE, value |-> prev]
    ELSE LET step == reduceCallback(prev, list[idx + 1], idx)
         IN  IF step.threw THEN step
             ELSE reduce(list, step.value, idx + 1)

-----------------------------------------------------------------------------
(* Quality gate: src/utils.ts checkIfResultsAreSatisfactory *)

\* PREFERRED_LAYERS.includes(feature?.properties?.layer)
hasPreferredLayer(feature) ==
    LET layer == Prop(feature, "layer")
    IN  layer # None
        /\ \E i \in 1..Len(PREFERRED_LAYERS) : PREFERRED_LAYERS[i] = Val(layer)

\* The name read as (name || ''), as filterOutDuplicateStops reads it
nameOrEmptyContainsQuery(feature, queryString) ==
    includes(toLowerCase(OrEmpty(Prop(feature, "name"))), toLowerCase(queryString))

\* feature?.properties?.name?.toLowerCase().includes(queryString.toLowerCase())
\* (undefined, hence falsy, for a feature without a name)
nameContainsQuery(feature, queryString) ==
    LET name == Prop(feature, "name")
    IN  name # None
        /\ includes(toLowerCase(Val(name)), toLowerCase(queryString))

checkIfResultsAreSatisfactory(featureCollection, queryString) ==
    LET features == featureCollection.features
    IN  IF features # None /\ Len(Val(features)) = 0 THEN FALSE
        ELSE IF ~(features # None
                  /\ \E i \in 1..Len(Val(features)) :
                         hasPreferredLayer(Val(features)[i]))
        THEN FALSE
        ELSE IF ~(\E i \in 1..Len(Val(features)) :
                      nameContainsQuery(Val(features)[i], queryString))
        THEN FALSE
        ELSE TRUE

-----------------------------------------------------------------------------
(* Backend invoker with cache: src/utils.ts cachedGeocoderRequest *)

Str_undefined == <<"u", "n", "d", "e", "f", "i", "n", "e", "d">>

\* `${x}` of an optional string
Interpolate(o) == IF o = None THEN Str_undefined ELSE Val(o)

\* `${text}:${focusPoint?.lat}:${focusPoint?.lon}`
redisKey(t, focus) ==
    Interpolate(t) \o <<":">>
    \o Interpolate(IF focus = None THEN None ELSE Val(focus).lat) \o <<":">>
    \o Interpolate(IF focus = None THEN None ELSE Val(focus).lon)

\* JSON.stringify of a collection: the string that denotes it
JSONstringify(collection) == [parses |-> TRUE, value |-> collection]

\* A string that is no JSON document
NotJSON == [parses |-> FALSE, value |-> EmptyCollection]

\* JSON.parse throws a SyntaxError on a string that is no JSON document
JSONparseThrows(string) == ~string.parses

\* JSON.parse of a string that denotes a collection
JSONparse(string) == string.value

\* The test of the cached value left out: every read counts as a miss
isCacheHitNever(cachedResponse) == FALSE

\* if (cachedResponse): redisClient.get resolved with a string, not with null
isCacheHit(cachedResponse) == cachedResponse # None

\* The early return only for a text that is undefined
textAbsentOnly(t) == t = None

\* if (!text): the text is absent or the empty string
textMissing(t) == ~TruthyString(t)

\* redis GET: the string stored under the key, null when there is none
redisGet(store, key) == IF key \in DOMAIN store THEN store[key] ELSE None

\* redis SET: the string is stored under the key
redisSet(store, key, string) ==
    [k \in DOMAIN store \cup {key} |-> IF k = key THEN Some(string) ELSE store[k]]

\* One redis or geocoder operation issued by a call
CacheOp(call, op, key, value) ==
    [call |-> call, op |-> op, key |-> key, value |-> value]

-----------------------------------------------------------------------------
(* Orchestrator: src/utils.ts makeGeocoderRequests *)

\* if (event?.queryStringParameters?.text) event.queryStringParameters.text =
\*     makeQueryPeliasCompatible(event.queryStringParameters.text)
cleanText(t) ==
    IF TruthyString(t) THEN Some(makeQueryPeliasCompatible(Val(t))) ELSE t

\* The backup used whenever one is configured, the gate left out
usesBackupWheneverConfigured(backup, response, t) == backup

\* backupGeocoders[index] && !checkIfResultsAreSatisfactory(response,
\*     event.queryStringParameters.text)
\* (an absent text meets only the empty collection that cachedGeocoderRequest
\* returns for it, which the gate rejects before it reads the text)
usesBackup(backup, response, t) ==
    backup /\ ~checkIfResultsAreSatisfactory(response, OrEmpty(t))

\* The fallback callback returning the backup's answer only if it holds
\* features, and the response it was given otherwise
fallbackReturnUnlessEmpty(response, backupAnswer) ==
    IF OrEmpty(backupAnswer.features) = <<>> THEN response ELSE backupAnswer

\* return await backupGeocoder[apiMethod](...): what the fallback callback
\* returns for a response it called the backup geocoder for
fallbackReturn(response, backupAnswer) == backupAnswer

\* A promise: pending, resolved with a response, or rejected
Pending == [state |-> "pending", response |-> EmptyCollection]
Resolved(response) == [state |-> "resolved", response |-> response]
Rejected == [state |-> "rejected", response |-> EmptyCollection]

\* Promise.all rejects as soon as one promise of the list is rejected
allRejects(promises) ==
    \E i \in 1..Len(promises) : promises[i].state = "rejected"

\* Promise.allSettled in the place of Promise.all: the list is waited for
\* until no promise is pending, rejected ones included
allSettled(promises) ==
    \A i \in 1..Len(promises) : promises[i].state # "pending"

\* Promise.any in the place of Promise.all: one resolved promise is enough
someResolves(promises) ==
    \E i \in 1..Len(promises) : promises[i].state = "resolved"

\* Promise.all resolves when every promise of the list is resolved
allResolves(promises) ==
    \A i \in 1..Len(promises) : promises[i].state = "resolved"

\* The cache after a call that went through cachedGeocoderRequest with the
\* redis client: the response is stored under the key
afterCachedCall(store, key, response) ==
    redisSet(store, key, JSONstringify(response))

\* The cache after `await secondaryGeocoder[apiMethod](...)`: the geocoder
\* is called directly, no redis client is involved
afterLiveCall(store, key, response) == store

\* One invocation of a geocoder method
BackendCall(role, index, method, t) ==
    [role |-> role, index |-> index, method |-> method, text |-> t]

-----------------------------------------------------------------------------
(* The inputs the model draws from *)

Str_Ab == <<"A", "b">>
Str_xAB == <<"x", "A", "B">>
Str_Zed == <<"Z", "e", "d">>
Str_IN == <<"I", "N">>
Str_Stop == <<"S", "t", "o", "p">>
Str_Hub == <<"H", "u", "b">>
Str_Line == <<"L", "i", "n", "e">>
Str_KCM == <<"K", "C", "M">>
Str_400_4100_0 == <<"4", "0", "0", "-", "4", "1", "0", "0", "-", "0">>
Str_100_1000_0 == <<"1", "0", "0", "-", "1", "0", "0", "0", "-", "0">>
Str_700_7400_0 == <<"7", "0", "0", "-", "7", "4", "0", "0", "-", "0">>

\* Positions [lon, lat] in micro-degrees
PosA == <<5123456, 5700000>>
PosA2 == <<5123458, 5700000>>    \* rounds like PosA
PosA3 == <<5123460, 5700010>>    \* rounds like PosA
PosB == <<5123420, 5700000>>     \* 4 m from PosA, rounds differently
PosB2 == <<5123422, 5700004>>    \* rounds like PosB
PosFar == <<5133456, 5710000>>

Point(position) == [type |-> "Point", coordinates |-> position]
LineString(positions) == [type |-> "LineString", coordinates |-> positions]

Feature(geometry, source, layer, name, distance, addendum) ==
    [type |-> "Feature",
     geometry |-> geometry,
     properties |-> Some([source |-> source, layer |-> layer, name |-> name,
                          distance |-> distance, addendum |-> addendum])]

Osm(operator) == Some([operator |-> operator])
Categories(ids) == Some([i \in 1..Len(ids) |-> [id |-> ids[i]]])

\* Features of the custom (transit) source
CustomFeatures ==
    { Feature(Point(PosB), "transit", Some("stop"), Some(Str_Ab), None, None),
      Feature(Point(PosA2), "transit", Some("stop"), Some(Str_Zed), None, None),
      Feature(LineString(<<PosA, PosFar>>), "transit", Some("route"),
              Some(Str_IN), None, None),
      Feature(Point(PosFar), "transit", Some("stop"), None, None, None) }

\* Features of the primary geocoder
PrimaryFeatures ==
    { \* not a stop: an osm addendum without operator, a HERE category that
      \* is not public transport
      Feature(Point(PosA3), "osm", Some("venue"), Some(Str_xAB), Some(100),
              Some([osm |-> Osm(None), categories |-> Categories(<<Str_700_7400_0>>)])),
      \* a stop by its osm operator
      Feature(Point(PosA3), "osm", Some("venue"), Some(Str_Stop), None,
              Some([osm |-> Osm(Some(Str_KCM)), categories |-> None])),
      \* a stop by its HERE category
      Feature(Point(PosB2), "here", Some("venue"), Some(Str_Hub), Some(7500),
              Some([osm |-> None,
                    categories |-> Categories(<<Str_100_1000_0, Str_400_4100_0>>)])),
      \* a stop that is not a Point
      Feature(LineString(<<PosA, PosB>>), "osm", Some("street"), Some(Str_Line),
              Some(100), Some([osm |-> Osm(Some(Str_KCM)), categories |-> None])),
      \* not a stop, far away, without a name
      Feature(Point(PosFar), "osm", Some("address"), None, Some(8000), None) }

\* The first is midway between PosB and PosA2, 2 m from each; the second is
\* near PosFar
FocusPoints == { [lat |-> 5700000, lon |-> 5123439],
                 [lat |-> 5710000, lon |-> 5133000] }

\* The lists of at most n features of S; no list holds one record twice, as
\* in a geocoder response
SeqsUpTo(S, n) ==
    { s \in UNION { [1..k -> S] : k \in 0..n } :
          \A i, j \in 1..Len(s) : i # j => s[i] # s[j] }

CustomResponses ==
    { FeatureCollection(Some(fs)) : fs \in SeqsUpTo(CustomFeatures, MaxCustom) }
    \cup { FeatureCollection(None) }

PrimaryResponses ==
    { FeatureCollection(Some(fs)) : fs \in SeqsUpTo(PrimaryFeatures, MaxPrimary) }
    \cup { FeatureCollection(None) }

\* Features as the quality gate sees them: a layer and a name
GateFeature(layer, name) == Feature(Point(PosA), "osm", layer, name, None, None)

Str_ab_c == <<"a", "b", " ", "c">>
Str_AB == <<"A", "B">>
Str_a == <<"a">>

GateFeatures ==
    { GateFeature(Some("venue"), Some(Str_xAB)),
      GateFeature(Some("country"), Some(Str_ab_c)),
      GateFeature(Some("street"), None),
      GateFeature(None, Some(<<>>)),
      GateFeature(Some("intersection"), Some(Str_a)) }

GateCollections ==
    { FeatureCollection(Some(fs)) : fs \in SeqsUpTo(GateFeatures, MaxGate) }
    \cup { FeatureCollection(None) }

GateQueries == { <<>>, Str_AB, Str_ab_c }

\* Features of the collections that are folded: a plain record of a local
\* source, a record that is no stop, and a stop by its osm operator at the
\* place of the second
FoldFeatures ==
    { Feature(Point(PosB), "transit", Some("stop"), Some(Str_Ab), None, None),
      Feature(Point(PosA3), "osm", Some("venue"), Some(Str_xAB), Some(100),
              Some([osm |-> Osm(None), categories |-> None])),
      Feature(Point(PosA3), "osm", Some("venue"), Some(Str_Stop), None,
              Some([osm |-> Osm(Some(Str_KCM)), categories |-> None])) }

FoldCollections ==
    { FeatureCollection(Some(fs)) : fs \in SeqsUpTo(FoldFeatures, MaxFold) }

\* The focus point of the request, None when it has none
FoldFocusPoints == { None, Some([lat |-> 5700000, lon |-> 5123439]) }

\* The arrays of one, two or three responses
ResponseLists ==
    UNION { [1..n -> FoldCollections] : n \in 1..3 }

Str_ab_at_c == <<"a", "b", "@", "c">>

\* What a request carries as its text: nothing, the empty string, "ab@c"
RequestTexts == { None, Some(<<>>), Some(Str_ab_at_c) }

ApiMethods == { "autocomplete", "search" }

\* What a geocoder answers: nothing, a venue named "ab c", a venue named "ab@c"
GeocoderResponses ==
    { EmptyCollection,
      FeatureCollection(Some(<<GateFeature(Some("venue"), Some(Str_ab_c))>>)),
      FeatureCollection(Some(<<GateFeature(Some("venue"), Some(Str_ab_at_c))>>)) }

\* BACKUP_GEOCODERS, as long as GEOCODERS: which entries are set
BackupConfigurations ==
    UNION { [1..n -> BOOLEAN] : n \in 1..MaxGeocoders }

\* Focus points as convertQSPToGeocoderArgs passes them: two strings
CacheFocusPoints == { None, Some([lat |-> <<"1">>, lon |-> <<"2">>]) }

CacheTexts == { None, Some(<<>>), Some(Str_ab_c) }

\* The keys that the calls of a request with such a text can form
CacheKeys == { redisKey(Some(Str_ab_c), f) : f \in CacheFocusPoints }

\* What the cache holds under a key when the request arrives: nothing, a
\* stored response, or a string that is no JSON document
StoredValues ==
    { None, Some(NotJSON),
      Some(JSONstringify(FeatureCollection(
               Some(<<GateFeature(Some("venue"), Some(Str_ab_c))>>)))) }

\* What a geocoder answers to a cached request
CachedResponses ==
    { EmptyCollection,
      FeatureCollection(Some(<<GateFeature(Some("street"), Some(Str_ab_c))>>)) }

\* The cache-eligible calls of one request (part_000:148-162): the primary
\* geocoder with the method of the request, the transit geocoder with
\* 'autocomplete'
CallIds == { "primary", "transit" }

\* What the secondary geocoder answers
SecondaryResponses ==
    { EmptyCollection,
      FeatureCollection(Some(<<GateFeature(Some("venue"), Some(Str_Hub))>>)) }

\* The call of the secondary geocoder before the request reaches it
SecondaryCall(configured) ==
    [configured |-> configured, pc |-> "idle", answer |-> EmptyCollection]

\* The calls of earlier requests that can have filled the cache: the primary
\* geocoder with either method, the transit geocoder with 'autocomplete'
EarlierCalls ==
    { [call |-> "primary", method |-> "autocomplete"],
      [call |-> "primary", method |-> "search"],
      [call |-> "transit", method |-> "autocomplete"] }

\* redisClient.set: it stores, it throws, or its promise rejects
SetOutcomes == { "stored", "throws", "rejects" }

\* A call before it starts; cachedResponse is its local variable of that
\* name, got tells whether redisClient.get has answered and how
CacheCall(method) ==
    [requestMethod |-> method, pc |-> "start", got |-> "none",
     cachedResponse |-> None, failure |-> "none", result |-> EmptyCollection]

\* Coordinates in micro-degrees: the values of the tests, 1/32 degree (which
\* a double holds exactly, and which lies midway between 0.0312 and 0.0313),
\* its neighbour 0.0313, their negatives, 0 and -0.00004
Longitudes ==
    { 5123456, 5123458, 5123420, 5123480, 31250, 31300, -31250, -31300, 0, -40 }
Latitudes == { 5700000, 5700049 }
Altitudes == { 12000000, 12000049 }

\* GeoJSON positions: [lon, lat] and [lon, lat, altitude]
Positions ==
    { <<lon, lat>> : lon \in Longitudes, lat \in Latitudes }
    \cup { <<lon, lat, alt>> :
               lon \in Longitudes, lat \in Latitudes, alt \in Altitudes }

\* Query strings of up to MaxText characters: letters, the two characters
\* the sanitizer replaces, and the space it replaces them with
QueryCharacters == { "a", "b", "@", "&", " " }
QueryStrings == UNION { [1..n -> QueryCharacters] : n \in 0..MaxText }

\* Values of the query string parameters; None is a parameter not given
RectValues ==
    { None, Some(<<>>), Some(<<"0">>), Some(<<"-", "0", ".", "0">>),
      Some(<<"1", ".", "5">>), Some(<<"x">>) }
RectValuesFew == { None, Some(<<"0">>), Some(<<"-", "2">>), Some(<<"1", "0", "a">>) }
SizeValues == { None, Some(<<"0">>), Some(<<"1", "0">>), Some(<<"x">>) }
LayersValues == { None, Some(<<>>), Some(<<"venue", ",", "address">>) }
TextValues == { None, Some(Str_a) }
LatLonValues == { None, Some(<<"1", ".", "5">>) }

QspKeys ==
    { "boundary.rect.min_lat", "boundary.rect.min_lon", "boundary.rect.max_lat",
      "boundary.rect.max_lon", "size", "layers", "text", "focus.point.lat",
      "focus.point.lon", "point.lat", "point.lon" }

\* event.queryStringParameters: the keys that were given, with their strings
QueryStringParameters(given) ==
    [key \in { k \in QspKeys : given[k] # None } |-> given[key]]

QspInputs ==
    { QueryStringParameters(
          [key \in QspKeys |->
              CASE key = "boundary.rect.min_lat" -> minLat
                [] key = "boundary.rect.min_lon" -> minLon
                [] key = "boundary.rect.max_lat" -> maxLat
                [] key = "boundary.rect.max_lon" -> maxLon
                [] key = "size" -> size
                [] key = "layers" -> layers
                [] key = "text" -> query
                [] key = "focus.point.lat" -> focus
                [] key = "focus.point.lon" -> focus
                [] key = "point.lat" -> None
                [] key = "point.lon" -> focus]) :
        minLat \in RectValues, minLon \in RectValues,
        maxLat \in RectValuesFew, maxLon \in RectValuesFew,
        size \in SizeValues, layers \in LayersValues, query \in TextValues,
        focus \in LatLonValues }

-----------------------------------------------------------------------------
(* The variables of an operation that a specification does not exercise     *)
(* stay at these values.                                                    *)

MergeIdle ==
    /\ customResponse = EmptyCollection
    /\ primaryResponse = EmptyCollection
    /\ focusPoint = None
    /\ customInput = EmptyCollection
    /\ primaryInput = EmptyCollection
    /\ outputs = <<>>

GateIdle ==
    /\ gateCollection = EmptyCollection
    /\ gateQuery = <<>>
    /\ gateResult = None

FoldIdle ==
    /\ foldResponses = <<>>
    /\ foldMerged = None
    /\ foldFocus = None

RequestIdle ==
    /\ receivedText = None
    /\ text = None
    /\ apiMethod = "autocomplete"
    /\ backupGeocoders = <<>>
    /\ initialCalls = <<>>
    /\ backupCalls = <<>>
    /\ gateChecks = <<>>
    /\ backupAnswers = <<>>
    /\ phase = "idle"
    /\ backendLog = <<>>
    /\ responses = <<>>
    /\ merged = None

CacheIdle ==
    /\ redisStore = [k \in CacheKeys |-> None]
    /\ redisClient = FALSE
    /\ cacheArgs = [text |-> None, focusPoint |-> None]
    /\ cacheCalls = [c \in CallIds |-> CacheCall("autocomplete")]
    /\ cacheLog = <<>>
    /\ unhandled = 0
    /\ secondaryCall = SecondaryCall(FALSE)
    /\ storedBy = [call |-> "primary", method |-> "autocomplete"]

PointIdle ==
    /\ pointA = <<>>
    /\ pointB = <<>>
    /\ pointsEqual = None

SanitizerIdle ==
    /\ rawQuery = <<>>
    /\ cleaned = None

QspIdle ==
    /\ queryStringParams = <<>>
    /\ geocoderArgs = None

NotMergeIdle ==
    /\ GateIdle /\ FoldIdle /\ RequestIdle /\ CacheIdle
    /\ PointIdle /\ SanitizerIdle /\ QspIdle
NotGateIdle ==
    /\ MergeIdle /\ FoldIdle /\ RequestIdle /\ CacheIdle
    /\ PointIdle /\ SanitizerIdle /\ QspIdle
NotFoldIdle ==
    /\ MergeIdle /\ GateIdle /\ RequestIdle /\ CacheIdle
    /\ PointIdle /\ SanitizerIdle /\ QspIdle
NotRequestIdle ==
    /\ MergeIdle /\ GateIdle /\ FoldIdle /\ CacheIdle
    /\ PointIdle /\ SanitizerIdle /\ QspIdle
NotCacheIdle ==
    /\ MergeIdle /\ GateIdle /\ FoldIdle /\ RequestIdle
    /\ PointIdle /\ SanitizerIdle /\ QspIdle
NotPointIdle ==
    /\ MergeIdle /\ GateIdle /\ FoldIdle /\ RequestIdle
    /\ CacheIdle /\ SanitizerIdle /\ QspIdle
NotSanitizerIdle ==
    /\ MergeIdle /\ GateIdle /\ FoldIdle /\ RequestIdle
    /\ CacheIdle /\ PointIdle /\ QspIdle
NotQspIdle ==
    /\ MergeIdle /\ GateIdle /\ FoldIdle /\ RequestIdle
    /\ CacheIdle /\ PointIdle /\ SanitizerIdle

-----------------------------------------------------------------------------
(* The merger as a state machine: two response objects are constructed and  *)
(* mergeResponses is called on them, up to twice in succession.             *)

InitMerge ==
    /\ customResponse \in CustomResponses
    /\ primaryResponse \in PrimaryResponses
    /\ focusPoint \in { None } \cup { Some(f) : f \in FocusPoints }
    /\ customInput = customResponse
    /\ primaryInput = primaryResponse
    /\ outputs = <<>>
    /\ NotMergeIdle

\* mergeResponses({ customResponse, primaryResponse }, focusPoint)
MergeCall ==
    /\ Len(outputs) < 2
    /\ LET call == mergeResponses(customResponse, primaryResponse, focusPoint)
       IN  /\ customResponse' = call.customResponse
           /\ primaryResponse' = call.primaryResponse
           /\ outputs' = Append(outputs,
                                IF call.threw THEN [threw |-> TRUE]
                                ELSE [threw |-> FALSE,
                                      mergedResponse |-> call.mergedResponse])
    /\ UNCHANGED <<focusPoint, customInput, primaryInput, notMergeVars>>

NextMerge == MergeCall

SpecMerge == InitMerge /\ [][NextMerge]_vars

-----------------------------------------------------------------------------
(* The quality gate as a state machine: a collection and a query text are   *)
(* chosen and checkIfResultsAreSatisfactory is called on them.              *)

InitGate ==
    /\ gateCollection \in GateCollections
    /\ gateQuery \in GateQueries
    /\ gateResult = None
    /\ NotGateIdle

\* checkIfResultsAreSatisfactory(gateCollection, gateQuery)
GateCall ==
    /\ gateResult = None
    /\ gateResult' = Some(checkIfResultsAreSatisfactory(gateCollection, gateQuery))
    /\ UNCHANGED <<gateCollection, gateQuery, notGateVars>>

NextGate == GateCall

SpecGate == InitGate /\ [][NextGate]_vars

-----------------------------------------------------------------------------
(* The fold as a state machine: the responses of the geocoders are there    *)
(* and the reduce of makeGeocoderRequests runs over them.                   *)

InitFold ==
    /\ foldResponses \in ResponseLists
    /\ foldMerged = None
    /\ foldFocus \in FoldFocusPoints
    /\ NotFoldIdle

\* const merged = responses.reduce(..., null); the callback hands no focus
\* point to mergeResponses, whatever the request carries
FoldCall ==
    /\ foldMerged = None
    /\ foldMerged' = Some(reduce(foldResponses, None, 0))
    /\ UNCHANGED <<foldResponses, foldFocus, notFoldVars>>

NextFold == FoldCall

SpecFold == InitFold /\ [][NextFold]_vars

-----------------------------------------------------------------------------
(* The orchestrator as a state machine: one request through                 *)
(* makeGeocoderRequests of src/utils.ts, from the event to the response.    *)
(* The geocoders answer, or fail, in any order.                             *)

InitRequest ==
    /\ receivedText \in RequestTexts
    /\ text = receivedText
    /\ apiMethod \in ApiMethods
    /\ backupGeocoders \in BackupConfigurations
    /\ initialCalls = <<>>
    /\ backupCalls = <<>>
    /\ gateChecks = <<>>
    /\ backupAnswers = <<>>
    /\ phase = "received"
    /\ backendLog = <<>>
    /\ responses = <<>>
    /\ merged = None
    /\ NotRequestIdle

\* makeGeocoderRequests up to its first await: the text is cleaned and one
\* cachedGeocoderRequest per geocoder is started, without a redis client; it
\* returns the empty collection for a missing text and calls the geocoder
\* otherwise
Receive ==
    /\ phase = "received"
    /\ LET cleanedText == cleanText(text)
           n == Len(backupGeocoders)
       IN  /\ text' = cleanedText
           /\ initialCalls' =
                  [i \in 1..n |-> IF textMissing(cleanedText)
                                  THEN Resolved(EmptyCollection) ELSE Pending]
           /\ backendLog' =
                  IF textMissing(cleanedText) THEN <<>>
                  ELSE [i \in 1..n |->
                            BackendCall("geocoder", i, apiMethod, cleanedText)]
    /\ phase' = "fanout"
    /\ UNCHANGED <<receivedText, apiMethod, backupGeocoders, backupCalls,
                   responses, merged, gateChecks,
                   backupAnswers, notRequestVars>>

\* await geocoder[requestMethod](args) of cachedGeocoderRequest: the geocoder
\* answers
InitialResolves(i, response) ==
    /\ phase = "fanout"
    /\ initialCalls[i].state = "pending"
    /\ initialCalls' = [initialCalls EXCEPT ![i] = Resolved(response)]
    /\ UNCHANGED <<receivedText, text, apiMethod, backupGeocoders, backupCalls,
                   phase, backendLog, responses, merged, gateChecks,
                   backupAnswers, notRequestVars>>

\* await geocoder[requestMethod](args) of cachedGeocoderRequest: the geocoder
\* fails, and with it the cachedGeocoderRequest
InitialRejects(i) ==
    /\ phase = "fanout"
    /\ initialCalls[i].state = "pending"
    /\ initialCalls' = [initialCalls EXCEPT ![i] = Rejected]
    /\ UNCHANGED <<receivedText, text, apiMethod, backupGeocoders, backupCalls,
                   phase, backendLog, responses, merged, gateChecks,
                   backupAnswers, notRequestVars>>

\* The first await Promise.all(...) throws: makeGeocoderRequests rejects
FanoutRejects ==
    /\ phase = "fanout"
    /\ allRejects(initialCalls)
    /\ phase' = "failed"
    /\ UNCHANGED <<receivedText, text, apiMethod, backupGeocoders, initialCalls,
                   backupCalls, backendLog, responses, merged, gateChecks,
                   backupAnswers, notRequestVars>>

\* The first await Promise.all(...) returns; the fallback callbacks run up to
\* their awaits, in the order of the array: each either returns the response
\* or invokes the backup geocoder
StartFallback ==
    /\ phase = "fanout"
    /\ allResolves(initialCalls)
    /\ LET n == Len(initialCalls)
           falls(i) == usesBackup(backupGeocoders[i], initialCalls[i].response, text)
           \* && calls the gate where a backup geocoder is configured
           gated(i) == backupGeocoders[i]
           indices == SelectSeq([i \in 1..n |-> i], falls)
       IN  /\ backupCalls' =
                  [i \in 1..n |-> IF falls(i) THEN Pending
                                  ELSE Resolved(initialCalls[i].response)]
           /\ backendLog' =
                  backendLog \o [k \in 1..Len(indices) |->
                                     BackendCall("backup", indices[k], apiMethod, text)]
           /\ gateChecks' =
                  SelectSeq([i \in 1..n |-> i], gated)
    /\ phase' = "fallback"
    /\ UNCHANGED <<receivedText, text, apiMethod, backupGeocoders, initialCalls,
                   responses, merged, backupAnswers, notRequestVars>>

\* await backupGeocoder[apiMethod](...): the backup geocoder answers
BackupResolves(i, response) ==
    /\ phase = "fallback"
    /\ backupCalls[i].state = "pending"
    /\ backupCalls' =
           [backupCalls EXCEPT
                ![i] = Resolved(fallbackReturn(initialCalls[i].response, response))]
    /\ backupAnswers' = Append(backupAnswers, [index |-> i, answer |-> response])
    /\ UNCHANGED <<receivedText, text, apiMethod, backupGeocoders, initialCalls,
                   phase, backendLog, responses, merged, gateChecks,
                   notRequestVars>>

\* await backupGeocoder[apiMethod](...): the backup geocoder fails
BackupRejects(i) ==
    /\ phase = "fallback"
    /\ backupCalls[i].state = "pending"
    /\ backupCalls' = [backupCalls EXCEPT ![i] = Rejected]
    /\ UNCHANGED <<receivedText, text, apiMethod, backupGeocoders, initialCalls,
                   phase, backendLog, responses, merged, gateChecks,
                   backupAnswers, notRequestVars>>

\* The second await Promise.all(...) throws: makeGeocoderRequests rejects
FallbackRejects ==
    /\ phase = "fallback"
    /\ allRejects(backupCalls)
    /\ phase' = "failed"
    /\ UNCHANGED <<receivedText, text, apiMethod, backupGeocoders, initialCalls,
                   backupCalls, backendLog, responses, merged, gateChecks,
                   backupAnswers, notRequestVars>>

\* The second await Promise.all(...) returns: the responses are folded and
\* the merged collection is the body of the 200 response
Respond ==
    /\ phase = "fallback"
    /\ allResolves(backupCalls)
    /\ LET settled == [i \in 1..Len(backupCalls) |-> backupCalls[i].response]
           folded == reduce(settled, None, 0)
       IN  /\ responses' = settled
           /\ merged' = IF folded.threw THEN None ELSE folded.value
           /\ phase' = IF folded.threw THEN "failed" ELSE "done"
    /\ UNCHANGED <<receivedText, text, apiMethod, backupGeocoders, initialCalls,
                   backupCalls, backendLog, gateChecks,
                   backupAnswers, notRequestVars>>

NextRequest ==
    \/ Receive
    \/ \E i \in 1..Len(initialCalls) :
           \/ \E response \in GeocoderResponses : InitialResolves(i, response)
           \/ InitialRejects(i)
    \/ FanoutRejects
    \/ StartFallback
    \/ \E i \in 1..Len(backupCalls) :
           \/ \E response \in GeocoderResponses : BackupResolves(i, response)
           \/ BackupRejects(i)
    \/ FallbackRejects
    \/ Respond

SpecRequest == InitRequest /\ [][NextRequest]_vars

\* The job queue runs every reaction of a settled promise: the continuation
\* of an await Promise.all(...) whose list holds a rejected promise is run
SpecRequestFair == SpecRequest /\ WF_vars(FanoutRejects)

-----------------------------------------------------------------------------
(* The cached calls as a state machine: the cachedGeocoderRequest calls of  *)
(* one request run side by side on one cache; redis and the geocoders       *)
(* answer, or fail, in any order.                                           *)

InitCache ==
    /\ redisStore \in [CacheKeys -> StoredValues]
    /\ redisClient \in BOOLEAN
    /\ cacheArgs \in [text : CacheTexts, focusPoint : CacheFocusPoints]
    /\ \E method \in ApiMethods :
           cacheCalls = [c \in CallIds |->
                            CacheCall(IF c = "primary" THEN method
                                      ELSE "autocomplete")]
    /\ cacheLog = <<>>
    /\ unhandled = 0
    /\ \E configured \in BOOLEAN : secondaryCall = SecondaryCall(configured)
    /\ storedBy \in EarlierCalls
    /\ NotCacheIdle

\* The key of the calls of this request
CurrentKey == redisKey(cacheArgs.text, cacheArgs.focusPoint)

\* cachedGeocoderRequest up to its first await or return: the early return
\* for a missing text, else redisClient.get with a client, else the geocoder
CacheStart(c) ==
    /\ cacheCalls[c].pc = "start"
    /\ IF textMissing(cacheArgs.text)
       THEN /\ cacheCalls' = [cacheCalls EXCEPT ![c].pc = "returned",
                                                ![c].result = EmptyCollection]
            /\ UNCHANGED cacheLog
       ELSE IF redisClient
       THEN /\ cacheCalls' = [cacheCalls EXCEPT ![c].pc = "get"]
            /\ cacheLog' = Append(cacheLog, CacheOp(c, "get", CurrentKey, None))
       ELSE /\ cacheCalls' = [cacheCalls EXCEPT ![c].pc = "backend"]
            /\ cacheLog' = Append(cacheLog,
                                  CacheOp(c, "backend", CurrentKey, None))
    /\ UNCHANGED <<redisStore, redisClient, cacheArgs, unhandled, secondaryCall,
                   storedBy, notCacheVars>>

\* await redisClient.get(redisKey) returns: a cached string is parsed and
\* returned (JSON.parse may throw), null leads on to the geocoder
GetResolves(c) ==
    /\ cacheCalls[c].pc = "get"
    /\ LET cachedResponse == redisGet(redisStore, CurrentKey)
       IN  IF isCacheHit(cachedResponse)
           THEN /\ cacheCalls' =
                       IF JSONparseThrows(Val(cachedResponse))
                       THEN [cacheCalls EXCEPT
                                 ![c].pc = "threw",
                                 ![c].got = "hit",
                                 ![c].cachedResponse = cachedResponse,
                                 ![c].failure = "parse"]
                       ELSE [cacheCalls EXCEPT
                                 ![c].pc = "returned",
                                 ![c].got = "hit",
                                 ![c].cachedResponse = cachedResponse,
                                 ![c].result = JSONparse(Val(cachedResponse))]
                /\ UNCHANGED cacheLog
           ELSE /\ cacheCalls' = [cacheCalls EXCEPT
                                      ![c].pc = "backend",
                                      ![c].got = "miss",
                                      ![c].cachedResponse = cachedResponse]
                /\ cacheLog' = Append(cacheLog,
                                      CacheOp(c, "backend", CurrentKey, None))
    /\ UNCHANGED <<redisStore, redisClient, cacheArgs, unhandled, secondaryCall,
                   storedBy, notCacheVars>>

\* await redisClient.get(redisKey) throws: nothing catches it
GetRejects(c) ==
    /\ cacheCalls[c].pc = "get"
    /\ cacheCalls' = [cacheCalls EXCEPT ![c].pc = "threw", ![c].failure = "get"]
    /\ UNCHANGED <<redisStore, redisClient, cacheArgs, cacheLog, unhandled, secondaryCall,
                   storedBy, notCacheVars>>

\* await geocoder[requestMethod](args) returns: with a client the response is
\* handed to redisClient.set inside try/catch, without await; it is returned
BackendResolves(c, onlineResponse, outcome) ==
    /\ cacheCalls[c].pc = "backend"
    /\ cacheCalls' = [cacheCalls EXCEPT ![c].pc = "returned",
                                        ![c].result = onlineResponse]
    /\ IF redisClient
       THEN /\ cacheLog' =
                   Append(cacheLog,
                          CacheOp(c, "set", CurrentKey,
                                  Some(JSONstringify(onlineResponse))))
            /\ redisStore' =
                   IF outcome = "stored"
                   THEN redisSet(redisStore, CurrentKey,
                                 JSONstringify(onlineResponse))
                   ELSE redisStore
            /\ unhandled' = IF outcome = "rejects" THEN unhandled + 1
                            ELSE unhandled
       ELSE /\ outcome = "stored"
            /\ UNCHANGED <<cacheLog, redisStore, unhandled>>
    /\ UNCHANGED <<redisClient, cacheArgs, secondaryCall,
                   storedBy, notCacheVars>>

\* await geocoder[requestMethod](args) throws: nothing catches it
BackendRejects(c) ==
    /\ cacheCalls[c].pc = "backend"
    /\ cacheCalls' = [cacheCalls EXCEPT ![c].pc = "threw",
                                        ![c].failure = "backend"]
    /\ UNCHANGED <<redisStore, redisClient, cacheArgs, cacheLog, unhandled, secondaryCall,
                   storedBy, notCacheVars>>

\* part_000:172-186 once the first await Promise.all(...) has returned: with
\* a secondary geocoder configured the quality gate is called on the primary
\* response, and the secondary geocoder is invoked if the gate fails
SecondaryStart ==
    /\ secondaryCall.pc = "idle"
    /\ \A c \in CallIds : cacheCalls[c].pc = "returned"
    /\ secondaryCall' =
           [secondaryCall EXCEPT
                !.pc = IF usesBackup(secondaryCall.configured,
                                     cacheCalls["primary"].result,
                                     cacheArgs.text)
                       THEN "called" ELSE "skipped"]
    /\ UNCHANGED <<redisStore, redisClient, cacheArgs, cacheCalls, cacheLog,
                   unhandled, storedBy, notCacheVars>>

\* primaryResponse = await secondaryGeocoder[apiMethod](...): it answers
SecondaryResolves(response) ==
    /\ secondaryCall.pc = "called"
    /\ secondaryCall' = [secondaryCall EXCEPT !.pc = "returned",
                                              !.answer = response]
    /\ redisStore' = afterLiveCall(redisStore, CurrentKey, response)
    /\ UNCHANGED <<redisClient, cacheArgs, cacheCalls, cacheLog, unhandled,
                   storedBy, notCacheVars>>

\* await secondaryGeocoder[apiMethod](...) throws
SecondaryRejects ==
    /\ secondaryCall.pc = "called"
    /\ secondaryCall' = [secondaryCall EXCEPT !.pc = "threw"]
    /\ UNCHANGED <<redisStore, redisClient, cacheArgs, cacheCalls, cacheLog,
                   unhandled, storedBy, notCacheVars>>

NextCache ==
    \/ \E c \in CallIds :
           \/ CacheStart(c)
           \/ GetResolves(c)
           \/ GetRejects(c)
           \/ \E onlineResponse \in CachedResponses, outcome \in SetOutcomes :
                  BackendResolves(c, onlineResponse, outcome)
           \/ BackendRejects(c)
    \/ SecondaryStart
    \/ \E response \in SecondaryResponses : SecondaryResolves(response)
    \/ SecondaryRejects

SpecCache == InitCache /\ [][NextCache]_vars

-----------------------------------------------------------------------------
(* The geo comparator as a state machine: two positions are chosen and      *)
(* arePointsRoughlyEqual is called on them.                                 *)

InitPoints ==
    /\ pointA \in Positions
    /\ pointB \in Positions
    /\ pointsEqual = None
    /\ NotPointIdle

\* arePointsRoughlyEqual(pointA, pointB)
ComparePoints ==
    /\ pointsEqual = None
    /\ pointsEqual' = Some(arePointsRoughlyEqual(pointA, pointB))
    /\ UNCHANGED <<pointA, pointB, notPointVars>>

NextPoints == ComparePoints

SpecPoints == InitPoints /\ [][NextPoints]_vars

-----------------------------------------------------------------------------
(* The sanitizer as a state machine: makeQueryPeliasCompatible is called on *)
(* a query string, and may be called again on its own result.               *)

InitSanitize ==
    /\ rawQuery \in QueryStrings
    /\ cleaned = None
    /\ NotSanitizerIdle

\* makeQueryPeliasCompatible(rawQuery)
Sanitize ==
    /\ cleaned = None
    /\ cleaned' = Some(makeQueryPeliasCompatible(rawQuery))
    /\ UNCHANGED <<rawQuery, notSanitizerVars>>

\* makeQueryPeliasCompatible(makeQueryPeliasCompatible(rawQuery)): the result
\* of the call becomes the argument of the next one
SanitizeAgain ==
    /\ cleaned # None
    /\ rawQuery # Val(cleaned)
    /\ rawQuery' = Val(cleaned)
    /\ cleaned' = Some(makeQueryPeliasCompatible(Val(cleaned)))
    /\ UNCHANGED notSanitizerVars

NextSanitize == Sanitize \/ SanitizeAgain

SpecSanitize == InitSanitize /\ [][NextSanitize]_vars

-----------------------------------------------------------------------------
(* The normalizer as a state machine: convertQSPToGeocoderArgs is called on *)
(* the query string parameters of an event.                                 *)

InitQSP ==
    /\ queryStringParams \in QspInputs
    /\ geocoderArgs = None
    /\ NotQspIdle

\* convertQSPToGeocoderArgs(queryStringParams)
ConvertQSP ==
    /\ geocoderArgs = None
    /\ geocoderArgs' = Some(convertQSPToGeocoderArgs(queryStringParams))
    /\ UNCHANGED <<queryStringParams, notQspVars>>

NextQSP == ConvertQSP

SpecQSP == InitQSP /\ [][NextQSP]_vars

-----------------------------------------------------------------------------
(* Vocabulary of the properties.  The inputs of the first call are the      *)
(* responses as constructed; its result is outputs[1].                      *)

Range(s) == { s[i] : i \in 1..Len(s) }

InCustom == OrEmpty(customInput.features)
InPrimary == OrEmpty(primaryInput.features)

\* The first call has returned a collection
Returned == Len(outputs) >= 1 /\ ~outputs[1].threw

\* The features of the collection the first call returned
Out == Val(outputs[1].mergedResponse.features)

Kept(F) == F \in Range(Out)

\* F carries addendum.osm.operator, or an addendum category id in "400-"
ClassifiedAsStop(F) ==
    /\ F.properties # None
    /\ Val(F.properties).addendum # None
    /\ LET add == Val(Val(F.properties).addendum)
       IN  \/ add.osm # None /\ Val(add.osm).operator \notin {None, Some(<<>>)}
           \/ /\ add.categories # None
              /\ \E c \in Range(Val(add.categories)) :
                     Len(c.id) >= 4 /\ SubSeq(c.id, 1, 4) = <<"4", "0", "0", "-">>

NameOf(F) ==
    IF F.properties = None \/ Val(F.properties).name = None THEN <<>>
    ELSE Val(Val(F.properties).name)

HasName(F) == F.properties # None /\ Val(F.properties).name # None

\* needle is a case-insensitive substring of hay
ContainsIgnoringCase(hay, needle) == includes(toLowerCase(hay), toLowerCase(needle))

DistanceExceeds(F) ==
    /\ F.properties # None
    /\ Val(F.properties).distance # None
    /\ Val(Val(F.properties).distance) > 7500

\* The name/distance gate lets F through: no custom feature's name (the empty
\* string for a custom feature without one) is a case-insensitive substring of
\* F's name, and F is not beyond the distance threshold while there is a
\* custom feature to compare it against
PassesGate(F, customs) ==
    /\ \A o \in Range(customs) : ~ContainsIgnoringCase(NameOf(F), NameOf(o))
    /\ ~(DistanceExceeds(F) /\ customs # <<>>)

\* Rounding to 4 decimal digits, of an integer number of micro-degrees
Rounded4(x) == IF x < 0 THEN -((-x + 50) \div 100) ELSE (x + 50) \div 100

RoughlyEqualPositions(a, b) ==
    \A i \in DOMAIN a : i \in DOMAIN b /\ Rounded4(a[i]) = Rounded4(b[i])

\* Some custom feature is a Point roughly equal to the Point F
HasPointMatch(F, customs) ==
    \E o \in Range(customs) :
        /\ F.geometry.type = "Point"
        /\ o.geometry.type = "Point"
        /\ RoughlyEqualPositions(F.geometry.coordinates, o.geometry.coordinates)

-----------------------------------------------------------------------------
(* C1: mergeResponses never mutates its inputs: after a call the two        *)
(* collections passed in hold the same features, in the same order, as      *)
(* before the call.  (Stated as the claim; the code assigns the filtered    *)
(* list to primaryResponse.features and sorts customResponse.features in    *)
(* place.)                                                                  *)
C1_InputsNeverMutated ==
    Len(outputs) >= 1 =>
        /\ OrEmpty(customResponse.features) = OrEmpty(customInput.features)
        /\ OrEmpty(primaryResponse.features) = OrEmpty(primaryInput.features)

(* C2: two calls in succession on the same objects, with the same focus     *)
(* point, return deep-equal results.                                        *)
C2_SecondCallEqualsFirst ==
    Len(outputs) = 2 => outputs[2] = outputs[1]

\* Two calls were made of which the first changed both input objects
C2_Witness ==
    /\ Len(outputs) = 2
    /\ ~outputs[1].threw
    /\ focusPoint # None
    /\ customResponse.features # customInput.features
    /\ primaryResponse.features # primaryInput.features
    /\ Len(Out) >= 3

(* C3: a primary feature classified as a transit stop that passes the       *)
(* name/distance gate is dropped if and only if some custom feature is a    *)
(* Point roughly equal to the feature's Point; a non-Point on either side   *)
(* never matches.                                                           *)
C3_StopDroppedIffPointMatch ==
    Returned =>
        \A F \in Range(InPrimary) :
            (ClassifiedAsStop(F) /\ PassesGate(F, InCustom))
                => (~Kept(F) <=> HasPointMatch(F, InCustom))

\* One call in which a stop is dropped for a custom Point that is roughly but
\* not exactly where it is, and another stop is kept although a custom
\* non-Point passes through its place
C3_Witness ==
    /\ Returned
    /\ \E F \in Range(InPrimary) :
           /\ ClassifiedAsStop(F) /\ PassesGate(F, InCustom) /\ ~Kept(F)
           /\ \A o \in Range(InCustom) :
                  o.geometry.type = "Point"
                      => o.geometry.coordinates # F.geometry.coordinates
    /\ \E F \in Range(InPrimary) :
           /\ ClassifiedAsStop(F) /\ PassesGate(F, InCustom) /\ Kept(F)
           /\ \E o \in Range(InCustom) : o.geometry.type # "Point"

(* C4 as claimed: a primary feature that is not classified as a transit     *)
(* stop is always kept, for every custom collection.                        *)
C4_NonStopAlwaysKept ==
    Returned =>
        \A F \in Range(InPrimary) : ~ClassifiedAsStop(F) => Kept(F)

(* C4 as amended: a primary feature that is not classified as a transit     *)
(* stop and that passes the name/distance gate is always kept, for every    *)
(* custom collection, including one with a feature at the same coordinates. *)
C4_NonStopKeptPastGate ==
    Returned =>
        \A F \in Range(InPrimary) :
            (~ClassifiedAsStop(F) /\ PassesGate(F, InCustom)) => Kept(F)

\* A feature that is no stop is kept although a custom Point is at its place
C4_Witness ==
    /\ Returned
    /\ \E F \in Range(InPrimary) :
           /\ ~ClassifiedAsStop(F)
           /\ PassesGate(F, InCustom)
           /\ HasPointMatch(F, InCustom)
           /\ Kept(F)

(* C5: a primary feature is dropped whenever some custom feature's name is  *)
(* a case-insensitive substring of its name, whatever its geometry and      *)
(* whether or not it is classified as a transit stop.                       *)
C5_NameMatchDrops ==
    Returned =>
        \A F \in Range(InPrimary) :
            (\E o \in Range(InCustom) :
                 HasName(o) /\ ContainsIgnoringCase(NameOf(F), NameOf(o)))
                => ~Kept(F)

\* Dropped by name alone, matching only when case is ignored: a feature that
\* is no stop, and a stop that is not a Point
C5_Witness ==
    /\ Returned
    /\ \E F, G \in Range(InPrimary) :
           /\ ~ClassifiedAsStop(F) /\ ~HasPointMatch(F, InCustom) /\ ~Kept(F)
           /\ ClassifiedAsStop(G) /\ G.geometry.type # "Point" /\ ~Kept(G)
           /\ \A H \in {F, G} :
                  /\ ~DistanceExceeds(H)
                  /\ \A o \in Range(InCustom) :
                         HasName(o) /\ ~includes(NameOf(H), NameOf(o))

(* C6: a primary feature whose distance exceeds 7500 is dropped, for every  *)
(* custom collection it is compared against, including an empty one.        *)
(* (Stated as the claim; the code tests the distance inside the callback of *)
(* customFeatures.find, which never runs on an empty list.)                 *)
C6_TooFarAlwaysDropped ==
    Returned =>
        \A F \in Range(InPrimary) : DistanceExceeds(F) => ~Kept(F)

(* C7: the features of the result are all the custom features followed by   *)
(* the primary features that passed the duplicate filter; the primary       *)
(* features keep their input order, no custom feature is dropped, and every *)
(* feature of the result is a feature of an input, unmodified.              *)
C7_CustomThenFilteredPrimary ==
    Returned =>
        LET n == Len(InCustom)
            head == SubSeq(Out, 1, n)
            tail == SubSeq(Out, n + 1, Len(Out))
            isKept(F) == F \in Range(tail)
        IN  /\ Len(Out) >= n
            /\ Range(head) = Range(InCustom)
            /\ focusPoint = None => head = InCustom
            /\ tail = SelectSeq(InPrimary, isKept)
            /\ \A F \in Range(InPrimary) :
                   isKept(F) <=>
                       /\ PassesGate(F, InCustom)
                       /\ ClassifiedAsStop(F) => ~HasPointMatch(F, InCustom)

\* A call that reordered the custom features, dropped one primary feature and
\* kept another
C7_Witness ==
    /\ Returned
    /\ Len(InCustom) >= 2
    /\ SubSeq(Out, 1, Len(InCustom)) # InCustom
    /\ Len(InPrimary) = 2
    /\ Len(Out) = Len(InCustom) + 1
    /\ Out[Len(Out)] = InPrimary[2]

DistanceToFocus(F) ==
    getDistance(fromCoordinates(F.geometry.coordinates), Val(focusPoint))

\* The position of feature F in the list s
IndexIn(s, F) == CHOOSE i \in 1..Len(s) : s[i] = F

(* C8: with a focus point, the custom features of the result are in         *)
(* ascending distance to it: of two custom Points the earlier is not the    *)
(* farther, also with non-Points interleaved; non-Points and ties keep      *)
(* their input order.  (Stated as the claim; the code's comparator answers  *)
(* 0 for a pair with a non-Point, so the sort leaves Points that a          *)
(* non-Point separates unordered.)                                          *)
C8_CustomSortedByDistance ==
    (Returned /\ focusPoint # None) =>
        LET n == Len(InCustom)
        IN  /\ \A i, j \in 1..n :
                   (/\ i < j
                    /\ Out[i].geometry.type = "Point"
                    /\ Out[j].geometry.type = "Point")
                       => DistanceToFocus(Out[i]) <= DistanceToFocus(Out[j])
            /\ \A i, j \in 1..n :
                   (/\ i < j
                    /\ \/ /\ InCustom[i].geometry.type # "Point"
                          /\ InCustom[j].geometry.type # "Point"
                       \/ /\ InCustom[i].geometry.type = "Point"
                          /\ InCustom[j].geometry.type = "Point"
                          /\ DistanceToFocus(InCustom[i])
                                 = DistanceToFocus(InCustom[j]))
                       => IndexIn(Out, InCustom[i]) < IndexIn(Out, InCustom[j])

(* C9: the focus point ranks and never filters: with a focus point the      *)
(* result holds the same features as the result of the same call without    *)
(* one, and the primary features in the same order.                         *)
C9_FocusOnlyRanks ==
    (Len(outputs) >= 1 /\ focusPoint # None) =>
        LET plain == mergeResponses(customInput, primaryInput, None)
            isPrimary(F) == F \in Range(InPrimary)
        IN  /\ plain.threw = outputs[1].threw
            /\ ~plain.threw =>
                   LET plainOut == Val(plain.mergedResponse.features)
                   IN  /\ Len(Out) = Len(plainOut)
                       /\ Range(Out) = Range(plainOut)
                       /\ SelectSeq(Out, isPrimary) = SelectSeq(plainOut, isPrimary)

\* A call with a focus point whose result is ordered otherwise than without
\* one, holds a custom non-Point, and from which a primary feature was dropped
C9_Witness ==
    /\ Returned
    /\ focusPoint # None
    /\ SubSeq(Out, 1, Len(InCustom)) # InCustom
    /\ \E o \in Range(InCustom) : o.geometry.type # "Point"
    /\ Len(Out) < Len(InCustom) + Len(InPrimary)

-----------------------------------------------------------------------------
(* C10: checkIfResultsAreSatisfactory returns true if and only if the       *)
(* collection is non-empty, some feature's layer is one of venue, address,  *)
(* street, intersection, and some feature's name contains the whole query   *)
(* text case-insensitively; the two may be different features, and a        *)
(* feature without a name never meets the name condition.                   *)
C10_GateIffLayerAndName ==
    gateResult # None =>
        LET features == OrEmpty(gateCollection.features)
            layerMet(F) ==
                /\ F.properties # None
                /\ Val(F.properties).layer \in
                       { Some("venue"), Some("address"), Some("street"),
                         Some("intersection") }
            nameMet(F) == HasName(F) /\ ContainsIgnoringCase(NameOf(F), gateQuery)
        IN  Val(gateResult) <=>
                /\ features # <<>>
                /\ \E F \in Range(features) : layerMet(F)
                /\ \E F \in Range(features) : nameMet(F)

\* The gate accepted a collection in which no single feature has both a
\* preferred layer and a matching name, and one feature has no name
C10_Witness ==
    /\ gateResult = Some(TRUE)
    /\ gateQuery # <<>>
    /\ \E F \in Range(Val(gateCollection.features)) : ~HasName(F)
    /\ \A F \in Range(Val(gateCollection.features)) :
           ~(hasPreferredLayer(F) /\ nameContainsQuery(F, gateQuery))

-----------------------------------------------------------------------------
(* Vocabulary of the fold properties *)

\* The reduce has returned a collection
Folded ==
    /\ foldMerged # None
    /\ ~Val(foldMerged).threw
    /\ Val(foldMerged).value # None

\* The features of the collection the reduce returned
FoldOut == Val(Val(Val(foldMerged).value).features)

\* The features of the collection at place i of the list that is folded
FoldIn(i) == Val(foldResponses[i].features)

\* s is t with some elements left out
IsSubSeq(s, t) ==
    \E f \in [1..Len(s) -> 1..Len(t)] :
        /\ \A i \in 1..Len(s) : t[f[i]] = s[i]
        /\ \A i, j \in 1..Len(s) : i < j => f[i] < f[j]

\* The duplicate filter of the merger lets F through against the list others
PassesFilter(F, others) ==
    /\ PassesGate(F, others)
    /\ ClassifiedAsStop(F) => ~HasPointMatch(F, others)

\* The features of fs that the duplicate filter lets through against others
Survivors(fs, others) ==
    LET passes(F) == PassesFilter(F, others)
    IN  SelectSeq(fs, passes)

(* C11 as claimed: folding [transit, custom, primary] left to right yields  *)
(* transit's features (filtered), then custom's features (filtered), then   *)
(* primary's features.                                                      *)
C11_TransitCustomPrimary ==
    (Folded /\ Len(foldResponses) = 3) =>
        \E i, j \in 0..Len(FoldOut) :
            /\ i <= j
            /\ IsSubSeq(SubSeq(FoldOut, 1, i), FoldIn(1))
            /\ IsSubSeq(SubSeq(FoldOut, i + 1, j), FoldIn(2))
            /\ SubSeq(FoldOut, j + 1, Len(FoldOut)) = FoldIn(3)

(* C11 as amended: folding [transit, custom, primary] left to right yields  *)
(* primary's features, all of them and in their order, then custom's        *)
(* features that pass the duplicate filter against primary's, then          *)
(* transit's features that pass the filter against custom's and then        *)
(* against primary's.                                                       *)
C11_PrimaryCustomTransit ==
    (Folded /\ Len(foldResponses) = 3) =>
        FoldOut = FoldIn(3)
                  \o Survivors(FoldIn(2), FoldIn(3))
                  \o Survivors(Survivors(FoldIn(1), FoldIn(2)), FoldIn(3))

\* Three responses were folded: a transit feature was dropped against custom,
\* another survived both merges, a custom feature was dropped against primary
C11_Witness ==
    /\ Folded
    /\ Len(foldResponses) = 3
    /\ FoldIn(3) # <<>>
    /\ \E F \in Range(FoldIn(1)) : ~PassesFilter(F, FoldIn(2))
    /\ \E F \in Range(FoldIn(1)) :
           /\ PassesFilter(F, FoldIn(2))
           /\ PassesFilter(F, FoldIn(3))
           /\ FoldOut[Len(FoldOut)] = F
    /\ \E F \in Range(FoldIn(2)) : ~PassesFilter(F, FoldIn(3))

-----------------------------------------------------------------------------
(* Vocabulary of the orchestrator properties *)

NumGeocoders == Len(backupGeocoders)

\* The calls logged so far to the backend of the given role and index
CallsTo(role, i) ==
    LET isCall(c) == c.role = role /\ c.index = i
    IN  SelectSeq(backendLog, isCall)

\* s with every '@' and '&' turned into a space
Sanitized(s) == [k \in 1..Len(s) |-> IF s[k] \in {"@", "&"} THEN " " ELSE s[k]]

\* The sanitized query text of the request ("" when the request has none)
SanitizedQuery == IF receivedText = None THEN <<>> ELSE Sanitized(Val(receivedText))

\* The quality gate of the specification: a non-empty list with a feature of
\* a preferred layer and a feature whose name contains the query
Satisfactory(collection, query) ==
    LET features == OrEmpty(collection.features)
    IN  /\ features # <<>>
        /\ \E F \in Range(features) :
               /\ F.properties # None
               /\ Val(F.properties).layer \in
                      { Some("venue"), Some("address"), Some("street"),
                        Some("intersection") }
        /\ \E F \in Range(features) :
               HasName(F) /\ ContainsIgnoringCase(NameOf(F), query)

\* Every initial call has returned and the fallback stage has begun
FallbackStarted == phase \in {"fallback", "done"} \/ backupCalls # <<>>

\* Geocoder i has a backup and its initial result fails the gate
NeedsBackup(i) ==
    /\ backupGeocoders[i]
    /\ initialCalls[i].state = "resolved"
    /\ ~Satisfactory(initialCalls[i].response, SanitizedQuery)

(* C12: in one request, for every primary backend the number of calls to    *)
(* its backup is exactly one if a backup is configured for it and its       *)
(* initial result fails the quality gate evaluated against the sanitized    *)
(* query text, and zero otherwise; the backup is called with the method of  *)
(* the primary.  The calls are counted from the fallback stage on; before   *)
(* it, and in a request whose fan-out failed, there is none.                *)
C12_BackupCalledOnceIffGateFails ==
    \A i \in 1..NumGeocoders :
        LET backups == CallsTo("backup", i)
        IN  /\ Len(backups) <= 1
            /\ Len(backups) = 1 => (FallbackStarted /\ NeedsBackup(i))
            /\ (FallbackStarted /\ NeedsBackup(i)) => Len(backups) = 1
            /\ \A k \in 1..Len(backups) :
                   /\ backups[k].method = apiMethod
                   /\ \A j \in 1..Len(CallsTo("geocoder", i)) :
                          backups[k].method = CallsTo("geocoder", i)[j].method

\* A search request answered with two geocoders that both have a backup: the
\* backup of one was called, for a result that names the text as received
\* but not as sanitized, and the backup of the other was not
C12_Witness ==
    /\ phase = "done"
    /\ apiMethod = "search"
    /\ \E i, j \in 1..NumGeocoders :
           /\ backupGeocoders[i] /\ backupGeocoders[j]
           /\ Len(CallsTo("backup", i)) = 1
           /\ Satisfactory(initialCalls[i].response, Val(receivedText))
           /\ Len(CallsTo("backup", j)) = 0

-----------------------------------------------------------------------------
(* Vocabulary of the cache properties *)

\* The operations of kind op that call c has issued, in order
OpsOf(c, op) ==
    LET isOp(e) == e.call = c /\ e.op = op
    IN  SelectSeq(cacheLog, isOp)

\* The position in the log of the first operation of kind op of call c
FirstOp(c, op) ==
    CHOOSE k \in 1..Len(cacheLog) :
        /\ cacheLog[k].call = c /\ cacheLog[k].op = op
        /\ \A j \in 1..(k - 1) : ~(cacheLog[j].call = c /\ cacheLog[j].op = op)

TextAbsentOrEmpty == cacheArgs.text \in { None, Some(<<>>) }

\* The cache answered the read of call c with a stored string / with nothing
CacheHit(c) == cacheCalls[c].got # "none" /\ cacheCalls[c].cachedResponse # None
CacheMiss(c) == cacheCalls[c].got # "none" /\ cacheCalls[c].cachedResponse = None

HasReturned(c) == cacheCalls[c].pc = "returned"
HasThrown(c) == cacheCalls[c].pc = "threw"

(* C13: cachedGeocoderRequest called with absent or empty query text        *)
(* returns an empty FeatureCollection without reading the cache, without    *)
(* writing the cache and without calling the backend.                       *)
C13_NoTextNoCacheNoBackend ==
    TextAbsentOrEmpty =>
        /\ cacheLog = <<>>
        /\ \A c \in CallIds :
               /\ cacheCalls[c].pc \in { "start", "returned" }
               /\ HasReturned(c) =>
                      /\ cacheCalls[c].result.type = "FeatureCollection"
                      /\ cacheCalls[c].result.features = Some(<<>>)

\* Both calls have returned for the empty string as text, with a redis
\* client and a cache that holds a response
C13_Witness ==
    /\ cacheArgs.text = Some(<<>>)
    /\ redisClient
    /\ \E k \in DOMAIN redisStore :
           redisStore[k] # None /\ Val(redisStore[k]).parses
    /\ \A c \in CallIds : HasReturned(c)

(* C14: with a cache handle and non-empty text, on a cache hit the backend  *)
(* is not called and the deserialized cached collection is returned; on a   *)
(* miss the backend is called exactly once and, only after that call        *)
(* succeeds, its result is written under the key that was read; the cache   *)
(* is never written on a hit or after a failed backend call.                *)
C14_HitServesMissFetchesThenWrites ==
    (redisClient /\ ~TextAbsentOrEmpty) =>
        \A c \in CallIds :
            LET gets == OpsOf(c, "get")
                backends == OpsOf(c, "backend")
                sets == OpsOf(c, "set")
            IN  /\ Len(gets) <= 1
                /\ (backends # <<>> \/ sets # <<>>) => CacheMiss(c)
                /\ (CacheHit(c) /\ HasReturned(c)) =>
                           /\ Val(cacheCalls[c].cachedResponse).parses
                           /\ cacheCalls[c].result
                                  = Val(cacheCalls[c].cachedResponse).value
                /\ CacheMiss(c) =>
                       /\ Len(backends) = 1
                       /\ Len(sets) <= 1
                       /\ (HasReturned(c) <=> Len(sets) = 1)
                       /\ HasThrown(c) => sets = <<>>
                       /\ sets # <<>> =>
                              /\ sets[1].key = gets[1].key
                              /\ sets[1].value
                                     = Some([parses |-> TRUE,
                                             value |-> cacheCalls[c].result])
                              /\ FirstOp(c, "backend") < FirstOp(c, "set")

\* The primary call missed, fetched and wrote; the transit call then hit and
\* returned what the primary call had written
C14_Witness ==
    /\ redisClient
    /\ CacheMiss("primary") /\ HasReturned("primary")
    /\ Len(OpsOf("primary", "set")) = 1
    /\ CacheHit("transit") /\ HasReturned("transit")
    /\ OpsOf("transit", "backend") = <<>>
    /\ cacheCalls["transit"].result = cacheCalls["primary"].result
    /\ cacheCalls["transit"].result # EmptyCollection

(* C15: a cache failure never fails the request: if the cache get fails or  *)
(* returns a value that cannot be deserialized, or the cache set fails,     *)
(* synchronously or asynchronously, cachedGeocoderRequest still returns the *)
(* backend's result and no error reaches the caller.  (Stated as the claim; *)
(* nothing catches a failing get or JSON.parse, and nothing handles the     *)
(* rejection of the promise that set returns.)                              *)
C15_CacheFailureNeverFails ==
    /\ unhandled = 0
    /\ \A c \in CallIds :
           HasThrown(c) => Len(OpsOf(c, "backend")) = 1

-----------------------------------------------------------------------------
(* C16: arePointsRoughlyEqual(a, b) is true if and only if every component  *)
(* of a, rounded to 4 decimal digits, equals the same-index component of b  *)
(* rounded to 4 decimal digits; [5.123456, 5.7] and [5.123458, 5.7] are     *)
(* equal, [5.12342, 5.7] and [5.12348, 5.7] are not.                        *)
C16_EqualIffRoundedComponentsEqual ==
    pointsEqual # None =>
        /\ Val(pointsEqual) <=> RoughlyEqualPositions(pointA, pointB)
        /\ (pointA = <<5123456, 5700000>> /\ pointB = <<5123458, 5700000>>)
               => Val(pointsEqual)
        /\ (pointA = <<5123420, 5700000>> /\ pointB = <<5123480, 5700000>>)
               => ~Val(pointsEqual)

\* Two different positions were found equal, one of them with a component
\* midway between two multiples of 0.0001
C16_Witness ==
    /\ pointsEqual = Some(TRUE)
    /\ pointA # pointB
    /\ \E i \in DOMAIN pointA : pointA[i] % 100 = 50

(* C17: arePointsRoughlyEqual is reflexive: arePointsRoughlyEqual(P, P) is  *)
(* true for every position P.                                               *)
C17_Reflexive ==
    (pointsEqual # None /\ pointA = pointB) => Val(pointsEqual)

\* A position of three components, one of them negative and none a multiple
\* of 0.0001, was compared with itself
C17_Witness ==
    /\ pointsEqual = Some(TRUE)
    /\ pointA = pointB
    /\ Len(pointA) = 3
    /\ pointA[1] < 0
    /\ \A i \in DOMAIN pointA : pointA[i] % 100 # 0

ParsesAsNumber(key) ==
    /\ key \in DOMAIN queryStringParams
    /\ LET string == Val(queryStringParams[key])
           unsigned ==
               IF string # <<>> /\ Head(string) \in { "-", "+" }
               THEN Tail(string) ELSE string
       IN  /\ unsigned # <<>>
           /\ \/ IsDigit(unsigned[1])
              \/ unsigned[1] = "." /\ Len(unsigned) > 1 /\ IsDigit(unsigned[2])

RectKeys ==
    { "boundary.rect.min_lat", "boundary.rect.min_lon", "boundary.rect.max_lat",
      "boundary.rect.max_lon" }

(* C19: convertQSPToGeocoderArgs returns for every parameter map; the       *)
(* bounding rectangle is set exactly when all four boundary.rect parameters *)
(* are given and parse as numbers, zero included; a missing size gives 4    *)
(* and a missing layers parameter gives venue,address,street,intersection.  *)
C19_RectSetIffFourNumbers ==
    geocoderArgs # None =>
        LET args == Val(geocoderArgs)
        IN  /\ args.boundary # None <=> \A key \in RectKeys : ParsesAsNumber(key)
            /\ "size" \notin DOMAIN queryStringParams
                   => args.size = JsNumber(4 * Pow10(FractionDigits))
            /\ "layers" \notin DOMAIN queryStringParams
                   => args.layers
                      = <<"venue", ",", "address", ",", "street", ",",
                          "intersection">>

\* An initial call of the request has failed
InitialCallFailed ==
    \E i \in DOMAIN initialCalls : initialCalls[i].state = "rejected"

(* C20: once an initial backend call of a request has failed, no merged     *)
(* response is produced, neither from the calls that succeeded nor from a   *)
(* backup, which is not called, and the request ends as failed.             *)
C20_InitialFailurePropagates ==
    /\ [](InitialCallFailed =>
             /\ merged = None
             /\ responses = <<>>
             /\ backupCalls = <<>>
             /\ \A i \in DOMAIN backupGeocoders : CallsTo("backup", i) = <<>>
             /\ phase \in { "fanout", "failed" })
    /\ (InitialCallFailed ~> phase = "failed")

\* The request has failed with one initial call failed, another answered
\* with features and a backup configured for the failed one
C20_Witness ==
    /\ phase = "failed"
    /\ \E i, j \in DOMAIN initialCalls :
           /\ initialCalls[i].state = "rejected"
           /\ backupGeocoders[i]
           /\ initialCalls[j].state = "resolved"
           /\ initialCalls[j].response.features # <<>>

-----------------------------------------------------------------------------
\* The features of the accumulator once the first k responses are folded
Accumulated(k) ==
    Val(Val(reduce(SubSeq(foldResponses, 1, k), None, 0).value).features)

(* C21 as claimed: in the fold the later collection is deduplicated against *)
(* the accumulator, so a feature of the accumulator is in the accumulator   *)
(* of every later step and in the result.                                   *)
C21_AccumulatorNeverLosesAFeature ==
    Folded =>
        \A k \in 1..(Len(foldResponses) - 1) :
            /\ Range(Accumulated(k)) \subseteq Range(Accumulated(k + 1))
            /\ Range(Accumulated(k)) \subseteq Range(FoldOut)

(* C21 as amended: the first response is the initial accumulator; in each   *)
(* later step the accumulator is the primary side and the next response the *)
(* custom side, so the step's result is the next response's features, all   *)
(* of them and in their order, followed by the accumulator's features that  *)
(* pass the duplicate filter against them.                                  *)
C21_AccumulatorIsFilteredAgainstLater ==
    Folded =>
        /\ Accumulated(1) = FoldIn(1)
        /\ \A k \in 1..(Len(foldResponses) - 1) :
               Accumulated(k + 1)
               = FoldIn(k + 1) \o Survivors(Accumulated(k), FoldIn(k + 1))
        /\ FoldOut = Accumulated(Len(foldResponses))

\* A feature of the first response went through the second step and was
\* dropped from the accumulator by the third, whose response is all there
C21_Witness ==
    /\ Folded
    /\ Len(foldResponses) = 3
    /\ \E F \in Range(FoldIn(1)) :
           /\ F \in Range(Accumulated(2))
           /\ F \notin Range(FoldOut)
    /\ FoldIn(3) # <<>>
    /\ SubSeq(FoldOut, 1, Len(FoldIn(3))) = FoldIn(3)

-----------------------------------------------------------------------------
\* How often the quality gate was called on the response of geocoder i
GateChecksOf(i) ==
    LET isI(j) == j = i
    IN  Len(SelectSeq(gateChecks, isI))

\* What the backup of geocoder i has answered so far
AnswersOf(i) ==
    LET isI(a) == a.index = i
    IN  SelectSeq(backupAnswers, isI)

(* C22: in one request the quality gate is called at most once per geocoder *)
(* and each geocoder and each backup is called at most once; where the      *)
(* backup was called, the response that enters the fold for that geocoder   *)
(* is what the backup answered, be it empty or unsatisfactory, and where it *)
(* was not called it is what the geocoder answered.                         *)
C22_BackupResultUsedAsIs ==
    \A i \in 1..NumGeocoders :
        /\ GateChecksOf(i) <= 1
        /\ Len(CallsTo("geocoder", i)) <= 1
        /\ Len(CallsTo("backup", i)) <= 1
        /\ Len(AnswersOf(i)) <= Len(CallsTo("backup", i))
        /\ responses # <<>> =>
               responses[i] = IF CallsTo("backup", i) # <<>>
                              THEN AnswersOf(i)[1].answer
                              ELSE initialCalls[i].response

\* A request was answered after a geocoder's response with features failed
\* the gate and its backup answered with no feature: the fold received the
\* empty collection
C22_Witness ==
    /\ phase = "done"
    /\ \E i \in 1..NumGeocoders :
           /\ GateChecksOf(i) = 1
           /\ OrEmpty(initialCalls[i].response.features) # <<>>
           /\ Len(AnswersOf(i)) = 1
           /\ AnswersOf(i)[1].answer = EmptyCollection
           /\ responses[i] = EmptyCollection

-----------------------------------------------------------------------------
\* The strings that the cached calls of the request have handed to
\* redisClient.set
WrittenByCachedCalls ==
    { cacheLog[k].value : k \in { j \in 1..Len(cacheLog) : cacheLog[j].op = "set" } }

(* C23: the call of the backup geocoder neither reads nor writes the cache: *)
(* every cache operation of a request belongs to one of its cached calls,   *)
(* every string handed to the cache is the serialized result of the cached  *)
(* call that hands it over, and every cache entry is one the request found  *)
(* or one a cached call wrote; the backup's answer is in none of them.      *)
C23_BackupIsLiveAndNotCached ==
    /\ \A k \in 1..Len(cacheLog) :
           /\ cacheLog[k].call \in CallIds
           /\ cacheLog[k].op = "set" =>
                  cacheLog[k].value
                  = Some(JSONstringify(cacheCalls[cacheLog[k].call].result))
    /\ \A key \in DOMAIN redisStore :
           redisStore[key] \in StoredValues \cup WrittenByCachedCalls
    /\ secondaryCall.pc # "idle" =>
           \A c \in CallIds : cacheCalls[c].pc = "returned"
    /\ (secondaryCall.pc = "returned"
        /\ secondaryCall.answer \notin { cacheCalls[c].result : c \in CallIds }) =>
           \A key \in DOMAIN redisStore :
               redisStore[key] # Some(JSONstringify(secondaryCall.answer))

\* The primary call missed the cache and stored its empty result, the gate
\* failed on it and the secondary geocoder answered with a feature; the
\* cache holds what a cached call wrote
C23_Witness ==
    /\ redisClient
    /\ CacheMiss("primary")
    /\ cacheCalls["primary"].result = EmptyCollection
    /\ secondaryCall.pc = "returned"
    /\ secondaryCall.answer # EmptyCollection
    /\ redisStore[CurrentKey] \in WrittenByCachedCalls

-----------------------------------------------------------------------------
\* Every initial call of the request has returned a response
InitialCallsCompleted ==
    /\ initialCalls # <<>>
    /\ \A i \in DOMAIN initialCalls : initialCalls[i].state = "resolved"

\* Every backup call that was made has been answered
BackupCallsCompleted ==
    /\ backupCalls # <<>>
    /\ \A i \in DOMAIN backupCalls :
           /\ backupCalls[i].state = "resolved"
           /\ Len(AnswersOf(i)) = Len(CallsTo("backup", i))

(* C24: within one request no backup geocoder is called before every        *)
(* initial call has completed, and the merged response exists only when     *)
(* every initial call and every backup call that was made has completed;    *)
(* in the order of the calls every initial call precedes every backup call. *)
C24_PhasesAreOrdered ==
    /\ (\E k \in 1..Len(backendLog) : backendLog[k].role = "backup")
           => InitialCallsCompleted
    /\ backupAnswers # <<>> => InitialCallsCompleted
    /\ (merged # None \/ responses # <<>> \/ phase = "done")
           => (InitialCallsCompleted /\ BackupCallsCompleted)
    /\ \A j, k \in 1..Len(backendLog) :
           (backendLog[j].role = "geocoder" /\ backendLog[k].role = "backup")
               => j < k

\* A request with two geocoders was answered after both had answered and
\* the backups of both had been called and had answered
C24_Witness ==
    /\ phase = "done"
    /\ merged # None
    /\ NumGeocoders = 2
    /\ \A i \in 1..NumGeocoders :
           /\ Len(CallsTo("geocoder", i)) = 1
           /\ Len(CallsTo("backup", i)) = 1
           /\ Len(AnswersOf(i)) = 1

-----------------------------------------------------------------------------
\* The distance of feature F to the focus point of the folded request
DistanceToFoldFocus(F) ==
    getDistance(fromCoordinates(F.geometry.coordinates), Val(foldFocus))

(* C25: for a request with a focus point, in every merge step of the fold   *)
(* the custom-side features are in ascending distance to the focus point:   *)
(* the features of the response merged at a step, which lead that step's    *)
(* result, are so ordered.  (Stated as the claim; the fold hands no focus   *)
(* point to the merger.)                                                    *)
C25_FoldSortsByFocus ==
    (Folded /\ foldFocus # None) =>
        \A k \in 2..Len(foldResponses) :
            LET step == Accumulated(k)
            IN  \A i, j \in 1..Len(FoldIn(k)) :
                    i < j => DistanceToFoldFocus(step[i])
                             <= DistanceToFoldFocus(step[j])

-----------------------------------------------------------------------------
\* The calls of this request that handed the string to redisClient.set
WritersOf(string) ==
    { cacheLog[k].call :
          k \in { j \in 1..Len(cacheLog) :
                     cacheLog[j].op = "set" /\ cacheLog[j].value = string } }

(* C26: a value that cachedGeocoderRequest returns from the cache for a     *)
(* call to a backend with a method was produced by a call to that backend   *)
(* with that method: an entry found when the request arrived was produced   *)
(* by such a call of an earlier request, and an entry written during the    *)
(* request was written by the call itself.  (Stated as the claim; the key   *)
(* names neither the backend nor the method.)                               *)
C26_CacheNotServedAcrossBackends ==
    \A c \in CallIds :
        (CacheHit(c) /\ HasReturned(c)) =>
            /\ WritersOf(cacheCalls[c].cachedResponse) \subseteq { c }
            /\ WritersOf(cacheCalls[c].cachedResponse) = {} =>
                   storedBy = [call |-> c,
                               method |-> cacheCalls[c].requestMethod]

-----------------------------------------------------------------------------
(* C27: in a request whose text is absent or empty no geocoder is called,   *)
(* neither an initial one nor a backup, and the response holds an empty     *)
(* feature list.  (Stated as the claim; the empty collection returned for   *)
(* such a text fails the quality gate, so a configured backup is called.)   *)
C27_NoTextNoBackendAtAll ==
    receivedText \in { None, Some(<<>>) } =>
        /\ backendLog = <<>>
        /\ backupAnswers = <<>>
        /\ phase # "failed"
        /\ merged # None => OrEmpty(Val(merged).features) = <<>>

-----------------------------------------------------------------------------
(* C28: a custom feature without a name, or with an empty one, makes the    *)
(* name gate reject no primary feature: with such a custom feature present  *)
(* a primary feature is dropped only if the non-empty name of a custom      *)
(* feature is contained in its name, or its distance exceeds 7500, or it is *)
(* a stop with a custom Point at its place.  (Stated as the claim; the code *)
(* reads a missing name as the empty string, which every name contains.)    *)
C28_NamelessCustomRejectsNothing ==
    Returned =>
        \A F \in Range(InPrimary) :
            ((\E o \in Range(InCustom) : NameOf(o) = <<>>) /\ ~Kept(F)) =>
                \/ \E o \in Range(InCustom) :
                       /\ NameOf(o) # <<>>
                       /\ ContainsIgnoringCase(NameOf(F), NameOf(o))
                \/ DistanceExceeds(F)
                \/ ClassifiedAsStop(F) /\ HasPointMatch(F, InCustom)

-----------------------------------------------------------------------------
(* C29: mergeResponses called with a response that has no features field    *)
(* returns a collection without raising, and the features of that           *)
(* collection are the features of the other response.  (Stated as the       *)
(* claim; with customResponse.features undefined the duplicate filter calls *)
(* find on undefined for the first primary feature.)                        *)
C29_TotalOverMissingFeatures ==
    (Len(outputs) >= 1
     /\ (customInput.features = None \/ primaryInput.features = None)) =>
        /\ ~outputs[1].threw
        /\ customInput.features = None => Out = InPrimary
        /\ primaryInput.features = None =>
               /\ Len(Out) = Len(InCustom)
               /\ Range(Out) = Range(InCustom)

-----------------------------------------------------------------------------
(* C30: arePointsRoughlyEqual is symmetric: for all positions a and b, also *)
(* of different numbers of components, arePointsRoughlyEqual(a, b) equals   *)
(* arePointsRoughlyEqual(b, a).  (Stated as the claim; the code walks the   *)
(* components of its first argument only.)                                  *)
C30_Symmetric ==
    pointsEqual # None =>
        Val(pointsEqual) = arePointsRoughlyEqual(pointB, pointA)

====
